---- MODULE Spec2Model ----
(***************************************************************************)
(* A model of two subsystems of the expression engine:                     *)
(*   - interpreter.Program: plan, bindOperators, computeConstExprs and     *)
(*     GetInstruction (src/interpreter/program.go);                        *)
(*   - the attribute resolvers: defaultResolver, listeningResolver and     *)
(*     unknownResolver (src/ext/indexer/program.go).                       *)
(* Go slices and maps are indexed from 0; sequences here are indexed from  *)
(* 1, so the Go index i of a slice s is s[i + 1] (operator At).            *)
(***************************************************************************)
EXTENDS Integers, Sequences, FiniteSets, TLC

VARIABLES
    expression,       \* Program.expression: index of the tree in ExprPool
    flags,            \* Program.flags
    Instructions,     \* Program.Instructions (meaningful when ~instNil)
    instNil,          \* Program.Instructions == nil
    revInstructions,  \* Program.revInstructions: id -> Go index
    resultID,         \* Program.resultID
    values,           \* evalState.values: id -> value (Nil when unset)
    pc,               \* "idle", "folding" (inside computeConstExprs), "panic"
    lastPass,         \* what the latest pass of computeConstExprs did
    emitLiterals,     \* layout choice of WalkExpr: literals emit an instruction
    emptyIsNil,       \* layout choice of WalkExpr: no instructions is a nil slice
    lastOp,           \* the operation that made the latest step
    eval,             \* the evaluators sharing the program once it is set up
    res               \* the latest resolver call: its inputs and its outcome

progVars == <<expression, flags, Instructions, instNil, revInstructions,
              resultID, values, pc, lastPass, emitLiterals, emptyIsNil, lastOp,
              eval>>
vars == <<expression, flags, Instructions, instNil, revInstructions,
          resultID, values, pc, lastPass, emitLiterals, emptyIsNil, lastOp,
          eval, res>>

(***************************************************************************)
(* Bounds of the model.                                                    *)
(***************************************************************************)
\* the integer a caller may pre-bind to an identifier in scratch state is
\* drawn from 0..MaxSynth
MaxSynth == 1
\* the longest selector path of a resolved attribute
MaxPathLen == 2
\* the number of elements of every ordered sequence of the resolver's data
ListLen == 3
\* the number of evaluators that share a program
NumEvaluators == 2
\* the largest byte offset of the source text of an expression
MaxOffset == 5
\* the largest number of entries of a table of line offsets
MaxLines == 3

(***************************************************************************)
(* Program flags (src/interpreter/program.go:31-43).                       *)
(***************************************************************************)
programFlagTrackState == 1
programFlagNoShortCircuit == 2
programFlagExhaustive == 3

\* flags & programFlagNoShortCircuit, for the flag values a Program can have
HasNoShortCircuit(f) == (f \div programFlagNoShortCircuit) % 2 = 1

(***************************************************************************)
(* Scratch values: ref.Val as far as folding looks at it.                  *)
(***************************************************************************)
Nil == [t |-> "nil", n |-> 0]
IntV(i) == [t |-> "int", n |-> i]
BoolV(b) == [t |-> "bool", n |-> IF b THEN 1 ELSE 0]
ErrV == [t |-> "err", n |-> 0]

(***************************************************************************)
(* Function names (operators.* and overloads.* of the engine).             *)
(***************************************************************************)
LogicalAnd == "_&&_"
LogicalOr == "_||_"
NotStrictlyFalse == "@not_strictly_false"
OldNotStrictlyFalse == "__not_strictly_false__"
Iterator == "@iterator"
HasNext == "@hasNext"
Next_ == "@next"

(***************************************************************************)
(* Expression trees.  A tree is a sequence of nodes; the node at index i   *)
(* has expression id i and its children have smaller ids; the root is the  *)
(* last node.                                                              *)
(***************************************************************************)
Lit(v) == [kind |-> "lit", fn |-> "", args |-> <<>>, val |-> v]
Ident(name) == [kind |-> "ident", fn |-> name, args |-> <<>>, val |-> Nil]
Call(f, as) == [kind |-> "call", fn |-> f, args |-> as, val |-> Nil]
\* a comprehension over the range expression r with loop body b
Compr(r, b) == [kind |-> "compr", fn |-> "", args |-> <<r, b>>, val |-> Nil]

\* 1 + 2
ExprAdd == << Lit(IntV(1)), Lit(IntV(2)), Call("_+_", <<1, 2>>) >>
\* (1 + 2) * 3
ExprChain == << Lit(IntV(1)), Lit(IntV(2)), Call("_+_", <<1, 2>>),
                Lit(IntV(3)), Call("_*_", <<3, 4>>) >>
\* x + (1 + 2)
ExprIdentAdd == << Ident("x"), Lit(IntV(1)), Lit(IntV(2)),
                   Call("_+_", <<2, 3>>), Call("_+_", <<1, 4>>) >>
\* true && false
ExprAnd == << Lit(BoolV(TRUE)), Lit(BoolV(FALSE)), Call(LogicalAnd, <<1, 2>>) >>
\* (1 < 2) && (2 < 3)
ExprAndCalls == << Lit(IntV(1)), Lit(IntV(2)), Call("_<_", <<1, 2>>),
                   Lit(IntV(2)), Lit(IntV(3)), Call("_<_", <<4, 5>>),
                   Call(LogicalAnd, <<3, 6>>) >>
\* x || (true && false)
ExprOrAnd == << Ident("x"), Lit(BoolV(TRUE)), Lit(BoolV(FALSE)),
                Call(LogicalAnd, <<2, 3>>), Call(LogicalOr, <<1, 4>>) >>
\* ((true && false) && (true && false)) || xs.exists(i, 1 < 2)
ExprAndsCompr == << Lit(BoolV(TRUE)), Lit(BoolV(FALSE)), Call(LogicalAnd, <<1, 2>>),
                    Lit(BoolV(TRUE)), Lit(BoolV(FALSE)), Call(LogicalAnd, <<4, 5>>),
                    Call(LogicalAnd, <<3, 6>>),
                    Ident("xs"), Lit(IntV(1)), Lit(IntV(2)), Call("_<_", <<9, 10>>),
                    Compr(8, 11), Call(LogicalOr, <<7, 12>>) >>
\* xs.exists(i, 1 < 2)
ExprCompr == << Ident("xs"), Lit(IntV(1)), Lit(IntV(2)), Call("_<_", <<2, 3>>),
                Compr(1, 4) >>
\* f3(1, 2, 3): a variadic call
ExprVariadic == << Lit(IntV(1)), Lit(IntV(2)), Lit(IntV(3)), Call("f3", <<1, 2, 3>>) >>
\* g(1): no dispatcher has an overload for g
ExprUnbound == << Lit(IntV(1)), Call("g", <<1>>) >>
\* @not_strictly_false(true): an iteration-protocol call
ExprNotStrictlyFalse == << Lit(BoolV(TRUE)), Call(NotStrictlyFalse, <<1>>) >>
\* size(1): the operand lacks the trait the overload requires
ExprTrait == << Lit(IntV(1)), Call("size", <<1>>) >>
\* -(1)
ExprNeg == << Lit(IntV(1)), Call("neg", <<1>>) >>
\* 1
ExprLit == << Lit(IntV(1)) >>

\* xs.exists(i, ys.exists(j, 1 < 2)): a comprehension inside a comprehension
ExprNested == << Ident("xs"), Ident("ys"), Lit(IntV(1)), Lit(IntV(2)),
                 Call("_<_", <<3, 4>>), Compr(2, 5), Compr(1, 6) >>

ExprPool == << ExprAdd, ExprChain, ExprIdentAdd, ExprAnd, ExprAndCalls, ExprOrAnd,
               ExprAndsCompr, ExprCompr, ExprVariadic, ExprUnbound,
               ExprNotStrictlyFalse, ExprTrait, ExprNeg, ExprLit, ExprNested >>

RECURSIVE MaxOf(_)
MaxOf(S) == IF S = {} THEN 0
            ELSE LET x == CHOOSE y \in S : TRUE
                     m == MaxOf(S \ {x})
                 IN IF x > m THEN x ELSE m

\* the largest expression id of any tree of the pool
MaxNodeID == MaxOf({Len(ExprPool[e]) : e \in DOMAIN ExprPool})
NodeIDs == 1..MaxNodeID

(***************************************************************************)
(* Instructions.  impl is the name of the bound overload, "" when nil.     *)
(***************************************************************************)
Inst(k, i, f, as) == [kind |-> k, id |-> i, fn |-> f, args |-> as, impl |-> ""]
\* ids of the instructions that stand for no expression node of their own
JumpID(callID) == MaxNodeID + callID
PushID(comprID) == 2 * MaxNodeID + comprID
PopID(comprID) == 3 * MaxNodeID + comprID

\* Go index i of slice s
At(s, i) == s[i + 1]

(***************************************************************************)
(* WalkExpr: the tree walked into an instruction sequence, children before *)
(* their parent.  A literal records its value in scratch state; whether it *)
(* also emits a push-literal instruction is the layout choice lit.         *)
(***************************************************************************)
RECURSIVE Walk(_, _, _, _)
Walk(nodes, id, shortcircuit, lit) ==
    LET nd == nodes[id] IN
    CASE nd.kind = "lit" ->
           IF lit THEN << Inst("const", id, "", <<>>) >> ELSE << >>
      [] nd.kind = "ident" -> << Inst("ident", id, nd.fn, <<>>) >>
      [] nd.kind = "compr" ->
           Walk(nodes, nd.args[1], shortcircuit, lit)
           \o << Inst("push", PushID(id), "", <<>>) >>
           \o Walk(nodes, nd.args[2], shortcircuit, lit)
           \o << Inst("pop", PopID(id), "", <<>>) >>
      [] nd.kind = "call" /\ nd.fn \in {LogicalAnd, LogicalOr} ->
           Walk(nodes, nd.args[1], shortcircuit, lit)
           \o (IF shortcircuit THEN << Inst("jump", JumpID(id), "", <<nd.args[1]>>) >>
               ELSE << >>)
           \o Walk(nodes, nd.args[2], shortcircuit, lit)
           \o << Inst("call", id, nd.fn, nd.args) >>
      [] nd.kind = "call" /\ Len(nd.args) = 1 ->
           Walk(nodes, nd.args[1], shortcircuit, lit)
           \o << Inst("call", id, nd.fn, nd.args) >>
      [] nd.kind = "call" /\ Len(nd.args) = 2 ->
           Walk(nodes, nd.args[1], shortcircuit, lit)
           \o Walk(nodes, nd.args[2], shortcircuit, lit)
           \o << Inst("call", id, nd.fn, nd.args) >>
      [] OTHER ->
           Walk(nodes, nd.args[1], shortcircuit, lit)
           \o Walk(nodes, nd.args[2], shortcircuit, lit)
           \o Walk(nodes, nd.args[3], shortcircuit, lit)
           \o << Inst("call", id, nd.fn, nd.args) >>

WalkExpr(nodes, shortcircuit, lit) == Walk(nodes, Len(nodes), shortcircuit, lit)

\* the scratch state after WalkExpr: every literal's value is recorded
WalkState(nodes, state) ==
    [i \in NodeIDs |->
        IF i \in DOMAIN nodes /\ nodes[i].kind = "lit" THEN nodes[i].val
        ELSE state[i]]

(***************************************************************************)
(* The dispatcher boundary: the overloads a Dispatcher knows, and what an  *)
(* overload does.                                                          *)
(***************************************************************************)
DispFull == {"_+_", "_*_", "_<_", LogicalAnd, LogicalOr, "neg", "size", "f3",
             NotStrictlyFalse}
DispPartial == DispFull \ {"_*_", "_<_"}
Dispatchers == {DispFull, DispPartial}

\* disp.FindOverload(name)
FindOverload(disp, name) ==
    [found |-> name \in disp, fn |-> IF name \in disp THEN name ELSE ""]

\* Overload.OperandTrait; "" stands for 0, no trait required
OperandTrait(impl) ==
    CASE impl = "_+_" -> "adder"
      [] impl = "size" -> "sizer"
      [] OTHER -> ""

\* arg.Type().HasTrait(trait)
HasTrait(v, trait) ==
    CASE trait = "adder" -> v.t = "int"
      [] trait = "sizer" -> FALSE
      [] OTHER -> FALSE

\* Overload.Unary(arg0)
ApplyUnary(impl, a) ==
    CASE impl = "neg" /\ a.t = "int" -> IntV(0 - a.n)
      [] impl = NotStrictlyFalse /\ a.t = "bool" -> a
      [] impl = "size" -> IntV(0)
      [] OTHER -> ErrV

\* Overload.Binary(arg0, arg1)
ApplyBinary(impl, a, b) ==
    CASE impl = "_+_" /\ a.t = "int" /\ b.t = "int" -> IntV(a.n + b.n)
      [] impl = "_*_" /\ a.t = "int" /\ b.t = "int" -> IntV(a.n * b.n)
      [] impl = "_<_" /\ a.t = "int" /\ b.t = "int" -> BoolV(a.n < b.n)
      [] impl = LogicalAnd /\ a.t = "bool" /\ b.t = "bool" -> BoolV(a.n = 1 /\ b.n = 1)
      [] impl = LogicalOr /\ a.t = "bool" /\ b.t = "bool" -> BoolV(a.n = 1 \/ b.n = 1)
      [] OTHER -> ErrV

(***************************************************************************)
(* Program.maybeComputeConstCall: whether the call folded, and the scratch *)
(* state afterwards.                                                       *)
(***************************************************************************)
ExcludedFunctions == {NotStrictlyFalse, OldNotStrictlyFalse, Iterator, HasNext, Next_}

\* maybeComputeConstCall storing a binary result under its second operand's
\* id as well
maybeComputeConstCallClobbering(call, state) ==
    IF call.impl = "" THEN [ok |-> FALSE, state |-> state]
    ELSE IF call.fn \in ExcludedFunctions THEN [ok |-> FALSE, state |-> state]
    ELSE IF Len(call.args) = 1 THEN
        LET arg0 == state[call.args[1]] IN
        IF arg0 = Nil THEN [ok |-> FALSE, state |-> state]
        ELSE IF OperandTrait(call.impl) # "" /\ ~HasTrait(arg0, OperandTrait(call.impl))
        THEN [ok |-> FALSE, state |-> state]
        ELSE [ok |-> TRUE,
              state |-> [state EXCEPT ![call.id] = ApplyUnary(call.impl, arg0)]]
    ELSE IF Len(call.args) = 2 THEN
        LET arg0 == state[call.args[1]]
            arg1 == state[call.args[2]] IN
        IF arg0 = Nil \/ arg1 = Nil THEN [ok |-> FALSE, state |-> state]
        ELSE IF OperandTrait(call.impl) # "" /\ ~HasTrait(arg0, OperandTrait(call.impl))
        THEN [ok |-> FALSE, state |-> state]
        ELSE [ok |-> TRUE,
              state |-> [state EXCEPT ![call.id] = ApplyBinary(call.impl, arg0, arg1),
                                      ![call.args[2]] = ApplyBinary(call.impl, arg0, arg1)]]
    ELSE [ok |-> FALSE, state |-> state]

\* Program.maybeComputeConstCall
maybeComputeConstCall(call, state) ==
    IF call.impl = "" THEN [ok |-> FALSE, state |-> state]
    ELSE IF call.fn \in ExcludedFunctions THEN [ok |-> FALSE, state |-> state]
    ELSE IF Len(call.args) = 1 THEN
        LET arg0 == state[call.args[1]] IN
        IF arg0 = Nil THEN [ok |-> FALSE, state |-> state]
        ELSE IF OperandTrait(call.impl) # "" /\ ~HasTrait(arg0, OperandTrait(call.impl))
        THEN [ok |-> FALSE, state |-> state]
        ELSE [ok |-> TRUE,
              state |-> [state EXCEPT ![call.id] = ApplyUnary(call.impl, arg0)]]
    ELSE IF Len(call.args) = 2 THEN
        LET arg0 == state[call.args[1]]
            arg1 == state[call.args[2]] IN
        IF arg0 = Nil \/ arg1 = Nil THEN [ok |-> FALSE, state |-> state]
        ELSE IF OperandTrait(call.impl) # "" /\ ~HasTrait(arg0, OperandTrait(call.impl))
        THEN [ok |-> FALSE, state |-> state]
        ELSE [ok |-> TRUE,
              state |-> [state EXCEPT ![call.id] = ApplyBinary(call.impl, arg0, arg1)]]
    ELSE [ok |-> FALSE, state |-> state]

(***************************************************************************)
(* Program.computeConstExprs, lines 135-157: the scan of one pass.  It     *)
(* yields the positions to remove (Go indices, in the order appended) and  *)
(* the scratch state with the folded results written.                      *)
(***************************************************************************)
RECURSIVE ScanFrom(_, _, _, _, _)
ScanFrom(instructions, i, nested, state, constInsts) ==
    IF i >= Len(instructions) THEN [constInsts |-> constInsts, state |-> state]
    ELSE
        LET inst == At(instructions, i) IN
        CASE inst.kind = "push" ->
               ScanFrom(instructions, i + 1, nested + 1, state, constInsts)
          [] inst.kind = "pop" ->
               ScanFrom(instructions, i + 1, nested - 1, state, constInsts)
          [] inst.kind = "call" ->
               IF nested # 0
               THEN ScanFrom(instructions, i + 1, nested, state, constInsts)
               ELSE LET r == maybeComputeConstCall(inst, state) IN
                    IF r.ok
                    THEN ScanFrom(instructions, i + 1, nested, r.state,
                                  constInsts
                                  \o (IF inst.fn \in {LogicalAnd, LogicalOr}
                                      THEN << i - 1 >> ELSE << >>)
                                  \o << i >>)
                    ELSE ScanFrom(instructions, i + 1, nested, state, constInsts)
          [] OTHER -> ScanFrom(instructions, i + 1, nested, state, constInsts)

Scan(instructions, state) == ScanFrom(instructions, 0, 0, state, << >>)

(***************************************************************************)
(* Program.computeConstExprs, lines 164-181: the copy of the survivors     *)
(* into a new slice of optInstsCnt entries.  A negative length given to    *)
(* make, and an index outside a slice, end the call in a run-time panic.   *)
(***************************************************************************)
\* the inner loop "for i < j": cur is [i, oi, out, fault]
RECURSIVE CopyUntil(_, _, _, _)
CopyUntil(instructions, optInstsCnt, j, cur) ==
    IF cur.fault \/ ~(cur.i < j) THEN cur
    ELSE IF cur.oi >= optInstsCnt \/ cur.i < 0 \/ cur.i >= Len(instructions)
    THEN [cur EXCEPT !.fault = TRUE]
    ELSE CopyUntil(instructions, optInstsCnt, j,
                   [i |-> cur.i + 1, oi |-> cur.oi + 1,
                    out |-> Append(cur.out, At(instructions, cur.i)),
                    fault |-> FALSE])

\* the loop "for _, j := range constInsts", from the k-th entry on
RECURSIVE CopyRange(_, _, _, _, _)
CopyRange(instructions, optInstsCnt, constInsts, k, cur) ==
    IF cur.fault \/ k > Len(constInsts) THEN cur
    ELSE LET j == constInsts[k]
             c == CopyUntil(instructions, optInstsCnt, j, cur)
         IN CopyRange(instructions, optInstsCnt, constInsts, k + 1,
                      IF c.fault THEN c ELSE [c EXCEPT !.i = j + 1])

\* the loop "for oi < optInstsCnt"
RECURSIVE CopyTail(_, _, _)
CopyTail(instructions, optInstsCnt, cur) ==
    IF cur.fault \/ ~(cur.oi < optInstsCnt) THEN cur
    ELSE IF cur.i < 0 \/ cur.i >= Len(instructions)
    THEN [cur EXCEPT !.fault = TRUE]
    ELSE CopyTail(instructions, optInstsCnt,
                  [i |-> cur.i + 1, oi |-> cur.oi + 1,
                   out |-> Append(cur.out, At(instructions, cur.i)),
                   fault |-> FALSE])

Splice(instructions, constInsts) ==
    LET optInstsCnt == Len(instructions) - Len(constInsts) IN
    IF optInstsCnt < 0 THEN [fault |-> TRUE, optInsts |-> << >>]
    ELSE LET start == [i |-> 0, oi |-> 0, out |-> << >>, fault |-> FALSE]
             mid == CopyRange(instructions, optInstsCnt, constInsts, 1, start)
             fin == CopyTail(instructions, optInstsCnt, mid)
         IN [fault |-> fin.fault, optInsts |-> fin.out]

(***************************************************************************)
(* The Program state machine.                                              *)
(***************************************************************************)
NoPass == [before |-> << >>, constInsts |-> << >>, outcome |-> "none"]
NoRes == [op |-> "none"]

\* the evaluators: phase is "setup" while the owner compiles the program and
\* "eval" once it is shared; pc[e] is the position of evaluator e; wrote is
\* the set of Program fields evaluators have written
Evaluators == 1..NumEvaluators
NoEval == [phase |-> "setup", pc |-> [e \in Evaluators |-> "start"], wrote |-> {}]

\* the scratch state a caller hands in: identifiers unbound, or all bound to v
SynthState(nodes, v) ==
    [i \in NodeIDs |->
        IF i \in DOMAIN nodes /\ nodes[i].kind = "ident" THEN v ELSE Nil]

\* NewProgram and NewExhaustiveProgram, with a fresh evalState
Init ==
    /\ expression \in DOMAIN ExprPool
    /\ flags \in {0, programFlagExhaustive}
    /\ Instructions = << >>
    /\ instNil = TRUE
    /\ revInstructions = [id \in {} |-> 0]
    /\ resultID = 0
    /\ \E v \in {Nil} \cup {IntV(k) : k \in 0..MaxSynth} :
           values = SynthState(ExprPool[expression], v)
    /\ pc = "idle"
    /\ lastPass = NoPass
    /\ emitLiterals \in BOOLEAN
    /\ emptyIsNil \in BOOLEAN
    /\ lastOp = "new"
    /\ eval = NoEval
    /\ res = NoRes

\* the loop of plan, lines 103-105, on the map rev
PlanIndex(rev, insts) ==
    [id \in DOMAIN rev \cup {insts[k].id : k \in DOMAIN insts} |->
        IF \E k \in DOMAIN insts : insts[k].id = id
        THEN MaxOf({k - 1 : k \in {k2 \in DOMAIN insts : insts[k2].id = id}})
        ELSE rev[id]]

\* plan without its test of Instructions == nil
PlanUnguarded ==
    /\ pc = "idle"
    /\ eval.phase = "setup"
    /\ LET shortcircuit == ~HasNoShortCircuit(flags)
           walked == WalkExpr(ExprPool[expression], shortcircuit, emitLiterals)
       IN /\ resultID' = Len(ExprPool[expression])
          /\ Instructions' = walked
          /\ instNil' = (walked = << >> /\ emptyIsNil)
          /\ values' = WalkState(ExprPool[expression], values)
          /\ revInstructions' = PlanIndex(revInstructions, walked)
    /\ lastOp' = IF resultID # 0 THEN "replan" ELSE "plan"
    /\ UNCHANGED <<expression, flags, pc, lastPass, emitLiterals, emptyIsNil, eval,
                   res>>

\* Program.plan
Plan ==
    /\ pc = "idle"
    /\ eval.phase = "setup"
    /\ IF instNil
       THEN LET shortcircuit == ~HasNoShortCircuit(flags)
                walked == WalkExpr(ExprPool[expression], shortcircuit, emitLiterals)
            IN /\ resultID' = Len(ExprPool[expression])
               /\ Instructions' = walked
               /\ instNil' = (walked = << >> /\ emptyIsNil)
               /\ values' = WalkState(ExprPool[expression], values)
               /\ revInstructions' = PlanIndex(revInstructions, walked)
       ELSE UNCHANGED <<resultID, Instructions, instNil, values, revInstructions>>
    /\ lastOp' = IF resultID # 0 THEN "replan" ELSE "plan"
    /\ UNCHANGED <<expression, flags, pc, lastPass, emitLiterals, emptyIsNil, eval,
                   res>>

\* the loop body clearing the implementation of a call the dispatcher has
\* no overload for
BindInstClearing(disp, inst) ==
    IF inst.kind # "call" THEN inst
    ELSE [inst EXCEPT !.impl = FindOverload(disp, inst.fn).fn]

\* the body of the loop of bindOperators, for one instruction
BindInst(disp, inst) ==
    IF inst.kind # "call" THEN inst
    ELSE LET o == FindOverload(disp, inst.fn) IN
         IF ~o.found THEN inst ELSE [inst EXCEPT !.impl = o.fn]

\* Program.bindOperators
BindOperators(disp) ==
    /\ pc = "idle"
    /\ eval.phase = "setup"
    /\ IF ~instNil
       THEN Instructions' = [k \in DOMAIN Instructions |-> BindInst(disp, Instructions[k])]
       ELSE UNCHANGED Instructions
    /\ lastOp' = "bind"
    /\ UNCHANGED <<expression, flags, instNil, revInstructions, resultID, values, pc,
                   lastPass, emitLiterals, emptyIsNil, eval, res>>

\* a pass that also returns when a single position was selected for removal
PassStopsEarly ==
    IF instNil
    THEN /\ pc' = "idle"
         /\ UNCHANGED <<Instructions, values, lastPass>>
    ELSE LET sc == Scan(Instructions, values)
             sp == Splice(Instructions, sc.constInsts)
         IN /\ values' = sc.state
            /\ IF Len(sc.constInsts) <= 1
               THEN /\ pc' = "idle"
                    /\ Instructions' = Instructions
                    /\ lastPass' = [before |-> Instructions, constInsts |-> << >>,
                                    outcome |-> "stop"]
               ELSE IF sp.fault
               THEN /\ pc' = "panic"
                    /\ Instructions' = Instructions
                    /\ lastPass' = [before |-> Instructions,
                                    constInsts |-> sc.constInsts, outcome |-> "fault"]
               ELSE /\ pc' = "folding"
                    /\ Instructions' = sp.optInsts
                    /\ lastPass' = [before |-> Instructions,
                                    constInsts |-> sc.constInsts, outcome |-> "shrunk"]

\* One invocation of computeConstExprs up to its recursive call: return when
\* there are no instructions or nothing folded, else splice and recurse.
Pass ==
    IF instNil
    THEN /\ pc' = "idle"
         /\ UNCHANGED <<Instructions, values, lastPass>>
    ELSE LET sc == Scan(Instructions, values)
             sp == Splice(Instructions, sc.constInsts)
         IN /\ values' = sc.state
            /\ IF Len(sc.constInsts) = 0
               THEN /\ pc' = "idle"
                    /\ Instructions' = Instructions
                    /\ lastPass' = [before |-> Instructions, constInsts |-> << >>,
                                    outcome |-> "stop"]
               ELSE IF sp.fault
               THEN /\ pc' = "panic"
                    /\ Instructions' = Instructions
                    /\ lastPass' = [before |-> Instructions,
                                    constInsts |-> sc.constInsts, outcome |-> "fault"]
               ELSE /\ pc' = "folding"
                    /\ Instructions' = sp.optInsts
                    /\ lastPass' = [before |-> Instructions,
                                    constInsts |-> sc.constInsts, outcome |-> "shrunk"]

\* Program.computeConstExprs, called by the owner of the program
ComputeConstExprs ==
    /\ pc = "idle"
    /\ eval.phase = "setup"
    /\ Pass
    /\ lastOp' = "fold"
    /\ UNCHANGED <<expression, flags, instNil, revInstructions, resultID,
                   emitLiterals, emptyIsNil, eval, res>>

\* Program.computeConstExprs, line 184: the recursive invocation
FoldAgain ==
    /\ pc = "folding"
    /\ Pass
    /\ lastOp' = "fold"
    /\ UNCHANGED <<expression, flags, instNil, revInstructions, resultID,
                   emitLiterals, emptyIsNil, eval, res>>

\* the ids of the program's instructions
IdsOfProgram == {Instructions[k].id : k \in DOMAIN Instructions}

\* Program.GetInstruction: the instruction, or a panic at an index past the end
GetInstruction(runtimeID) ==
    LET idx == IF runtimeID \in DOMAIN revInstructions
               THEN revInstructions[runtimeID] ELSE 0
    IN IF idx < 0 \/ idx >= Len(Instructions)
       THEN [fault |-> TRUE, inst |-> Inst("none", 0, "", << >>)]
       ELSE [fault |-> FALSE, inst |-> At(Instructions, idx)]

\* maxID(expr): the highest expression id of the tree rooted at id
RECURSIVE maxID(_, _)
maxID(nodes, id) ==
    MaxOf({id} \cup {maxID(nodes, nodes[id].args[k]) : k \in DOMAIN nodes[id].args})

\* comprehensionCount(expr): the comprehensions of the sub-trees args[k..]
RECURSIVE comprehensionCount(_, _)
RECURSIVE comprehensionCountOf(_, _, _)
comprehensionCountOf(nodes, args, k) ==
    IF k > Len(args) THEN 0
    ELSE comprehensionCount(nodes, args[k]) + comprehensionCountOf(nodes, args, k + 1)

comprehensionCount(nodes, id) ==
    (IF nodes[id].kind = "compr" THEN 1 ELSE 0)
    + comprehensionCountOf(nodes, nodes[id].args, 1)

\* MaxInstructionID with two ids allocated per comprehension
MaxInstructionIDTwoPer ==
    maxID(ExprPool[expression], Len(ExprPool[expression]))
    + comprehensionCount(ExprPool[expression], Len(ExprPool[expression])) * 2

\* Program.MaxInstructionID
MaxInstructionID ==
    maxID(ExprPool[expression], Len(ExprPool[expression]))
    + comprehensionCount(ExprPool[expression], Len(ExprPool[expression])) * 3

(***************************************************************************)
(* The evaluators.  Once the owner has planned and folded the program, it  *)
(* is shared: every evaluator calls plan, then GetInstruction,             *)
(* MaxInstructionID and Metadata, and the steps of different evaluators    *)
(* interleave.  plan is two steps: its test of Instructions == nil, and    *)
(* the walk with its writes.                                               *)
(***************************************************************************)
\* the owner's setup is complete: the program is handed to the evaluators
BeginEvaluation ==
    /\ eval.phase = "setup"
    /\ pc = "idle"
    /\ resultID # 0
    /\ lastOp = "fold"
    /\ eval' = [eval EXCEPT !.phase = "eval"]
    /\ UNCHANGED <<expression, flags, Instructions, instNil, revInstructions,
                   resultID, values, pc, lastPass, emitLiterals, emptyIsNil, lastOp,
                   res>>

\* Program.plan, line 95: if p.Instructions == nil
EvalPlanCheck(e) ==
    /\ eval.phase = "eval"
    /\ eval.pc[e] = "start"
    /\ eval' = [eval EXCEPT !.pc[e] = IF instNil THEN "walk" ELSE "planned"]
    /\ UNCHANGED <<expression, flags, Instructions, instNil, revInstructions,
                   resultID, values, pc, lastPass, emitLiterals, emptyIsNil, lastOp,
                   res>>

\* the Program fields the body of plan assigns for the walked sequence
PlanWrites(walked) ==
    {"resultID", "Instructions"}
    \cup (IF walked = << >> THEN {} ELSE {"revInstructions"})

\* Program.plan, lines 96-105, run by an evaluator with its own scratch state
EvalPlanWalk(e) ==
    /\ eval.phase = "eval"
    /\ eval.pc[e] = "walk"
    /\ LET walked == WalkExpr(ExprPool[expression], ~HasNoShortCircuit(flags),
                              emitLiterals)
       IN /\ resultID' = Len(ExprPool[expression])
          /\ Instructions' = walked
          /\ instNil' = (walked = << >> /\ emptyIsNil)
          /\ revInstructions' = PlanIndex(revInstructions, walked)
          /\ eval' = [eval EXCEPT !.pc[e] = "planned",
                                   !.wrote = @ \cup PlanWrites(walked)]
    /\ UNCHANGED <<expression, flags, values, pc, lastPass, emitLiterals, emptyIsNil,
                   lastOp, res>>

\* Program.GetInstruction, called for the result or for an instruction's id
EvalGetInstruction(e) ==
    /\ eval.phase = "eval"
    /\ eval.pc[e] = "planned"
    /\ \E id \in IdsOfProgram \cup {resultID} :
           eval' = [eval EXCEPT !.pc[e] = IF GetInstruction(id).fault
                                          THEN "panic" ELSE "got"]
    /\ UNCHANGED <<expression, flags, Instructions, instNil, revInstructions,
                   resultID, values, pc, lastPass, emitLiterals, emptyIsNil, lastOp,
                   res>>

\* Program.MaxInstructionID: the size of the evaluator's scratch state
EvalMaxInstructionID(e) ==
    /\ eval.phase = "eval"
    /\ eval.pc[e] = "got"
    /\ MaxInstructionID >= resultID
    /\ eval' = [eval EXCEPT !.pc[e] = "sized"]
    /\ UNCHANGED <<expression, flags, Instructions, instNil, revInstructions,
                   resultID, values, pc, lastPass, emitLiterals, emptyIsNil, lastOp,
                   res>>

\* Program.Metadata: returns p.metadata
EvalMetadata(e) ==
    /\ eval.phase = "eval"
    /\ eval.pc[e] = "sized"
    /\ eval' = [eval EXCEPT !.pc[e] = "done"]
    /\ UNCHANGED <<expression, flags, Instructions, instNil, revInstructions,
                   resultID, values, pc, lastPass, emitLiterals, emptyIsNil, lastOp,
                   res>>

Next ==
    \/ Plan
    \/ \E disp \in Dispatchers : BindOperators(disp)
    \/ ComputeConstExprs
    \/ FoldAgain
    \/ BeginEvaluation
    \/ \E e \in Evaluators : EvalPlanCheck(e)
    \/ \E e \in Evaluators : EvalPlanWalk(e)
    \/ \E e \in Evaluators : EvalGetInstruction(e)
    \/ \E e \in Evaluators : EvalMaxInstructionID(e)
    \/ \E e \in Evaluators : EvalMetadata(e)

Spec == Init /\ [][Next]_vars

\* computeConstExprs runs to completion once called: the recursive invocation
\* is a plain call
FairSpec == Spec /\ WF_vars(FoldAgain)

(***************************************************************************)
(* Helpers of the properties of the Program.                               *)
(***************************************************************************)
\* the scope depth the scan has when it reaches the k-th instruction
RECURSIVE DepthAt(_, _)
DepthAt(insts, k) ==
    IF k <= 1 THEN 0
    ELSE DepthAt(insts, k - 1)
         + (IF insts[k - 1].kind = "push" THEN 1
            ELSE IF insts[k - 1].kind = "pop" THEN 0 - 1 ELSE 0)

\* the conditions of section 4.1 for a call to be folded, stated on their own
Foldable(insts, k, state) ==
    /\ insts[k].kind = "call"
    /\ DepthAt(insts, k) = 0
    /\ insts[k].impl # ""
    /\ insts[k].fn \notin ExcludedFunctions
    /\ Len(insts[k].args) \in {1, 2}
    /\ \A a \in DOMAIN insts[k].args : state[insts[k].args[a]] # Nil
    /\ \/ OperandTrait(insts[k].impl) = ""
       \/ HasTrait(state[insts[k].args[1]], OperandTrait(insts[k].impl))

\* the value the implementation gives for the call's arguments
Applied(inst, state) ==
    IF Len(inst.args) = 1
    THEN ApplyUnary(inst.impl, state[inst.args[1]])
    ELSE ApplyBinary(inst.impl, state[inst.args[1]], state[inst.args[2]])

IdsOf(insts) == {insts[k].id : k \in DOMAIN insts}

\* a step of computeConstExprs: one pass
PassStep == ComputeConstExprs \/ FoldAgain

(***************************************************************************)
(* C1: after any sequence of plan, bindOperators and computeConstExprs     *)
(* calls, revInstructions[Instructions[i].GetID()] = i for every position  *)
(* i, and GetInstruction(id) returns the instruction whose id is id        *)
(* without indexing past the end.                                          *)
(***************************************************************************)
C1_ReverseIndexAgrees ==
    (pc = "idle" /\ ~instNil) =>
        \A k \in DOMAIN Instructions :
            /\ Instructions[k].id \in DOMAIN revInstructions
            /\ revInstructions[Instructions[k].id] = k - 1
            /\ ~GetInstruction(Instructions[k].id).fault
            /\ GetInstruction(Instructions[k].id).inst.id = Instructions[k].id

(***************************************************************************)
(* C2: folding soundness.  A pass of computeConstExprs removes every call  *)
(* at depth zero that has a bound implementation, is no iteration-protocol *)
(* call, takes one or two arguments that all have a value in scratch       *)
(* state and satisfies the operand trait, and records its result under the *)
(* call's id.                                                              *)
(***************************************************************************)
C2_FoldingSound ==
    [][(PassStep /\ ~instNil) =>
          \A k \in DOMAIN Instructions :
              Foldable(Instructions, k, values) =>
                  /\ Instructions[k].id \notin IdsOf(Instructions')
                  /\ values'[Instructions[k].id] = Applied(Instructions[k], values')]_vars

\* the ids of the calls of insts that lie between a push and its pop
ScopedCallIds(insts) ==
    {insts[k].id : k \in {j \in DOMAIN insts :
                             insts[j].kind = "call" /\ DepthAt(insts, j) > 0}}

\* the instructions of insts whose id is in S, in their order
Restrict(insts, S) == LET Keep(x) == x.id \in S IN SelectSeq(insts, Keep)

(***************************************************************************)
(* C3: scope respect.  A call between a push-scope and its pop-scope is    *)
(* never folded by a pass (its scratch value is not written), and when the *)
(* pass has produced its instruction sequence the call is still there, in  *)
(* the same order relative to the other such calls.                        *)
(***************************************************************************)
C3_ScopeRespect ==
    [][(PassStep /\ ~instNil /\ pc' # "panic") =>
          LET S == ScopedCallIds(Instructions) IN
          /\ \A id \in S : values'[id] = values[id]
          /\ Restrict(Instructions', S) = Restrict(Instructions, S)]_vars

\* the part of C3 the code keeps: a scoped call is never folded
ScopedNeverFolded ==
    [][PassStep => \A id \in ScopedCallIds(Instructions) : values'[id] = values[id]]_vars

(***************************************************************************)
(* C4: termination.  Every pass of computeConstExprs either performs zero  *)
(* foldings and stops, or produces a strictly shorter instruction sequence *)
(* before the next pass starts.                                            *)
(***************************************************************************)
C4_ShrinkOrStop ==
    [][PassStep =>
          \/ pc' = "idle" /\ Instructions' = Instructions /\ values' = values
          \/ pc' = "folding" /\ Len(Instructions') < Len(Instructions)]_vars

\* computeConstExprs halts: by returning or by a run-time panic
FoldHalts == (pc = "folding") ~> (pc # "folding")

(***************************************************************************)
(* C5: idempotence of plan.  Once plan has run, plan changes neither       *)
(* Instructions nor revInstructions, also after bindOperators or           *)
(* computeConstExprs have run.                                             *)
(***************************************************************************)
C5_PlanIdempotent ==
    [][(Plan /\ resultID # 0) =>
          /\ Instructions' = Instructions
          /\ instNil' = instNil
          /\ revInstructions' = revInstructions]_vars

\* plan was invoked on a program that was bound and whose folding removed
\* instructions
C5_Witness ==
    /\ lastOp = "replan"
    /\ ~instNil
    /\ lastPass.outcome = "stop"
    /\ Len(Instructions) < Len(WalkExpr(ExprPool[expression],
                                        ~HasNoShortCircuit(flags), emitLiterals))

(***************************************************************************)
(* The attribute resolvers (src/ext/indexer/program.go).                   *)
(*                                                                         *)
(* A Go value the resolver meets is a record: kind is its dynamic type, t  *)
(* a subtype, s and n its string and integer payload, kids its entries     *)
(* (key and value; the key of a sequence element is "").  An error carries *)
(* in n the selector step that allocated it (0: it was in the data), so    *)
(* two errors are the same pointer iff the records are equal.              *)
(***************************************************************************)
Val(k, t, s, n, kids) == [kind |-> k, t |-> t, s |-> s, n |-> n, kids |-> kids]
Entry(key, v) == [key |-> key, val |-> v]

\* ref.Val scalars: types.String, types.Int, types.Bool, types.NullValue
String(x) == Val("refval", "string", x, 0, << >>)
Int_(i) == Val("refval", "int", "", i, << >>)
Bool_(b) == Val("refval", "bool", "", IF b THEN 1 ELSE 0, << >>)
NullValue == Val("refval", "null", "", 0, << >>)
\* Go native scalars: the elements of the typed maps and slices
Native(t, x, i) == Val("native", t, x, i, << >>)
\* the untyped nil interface value
GoNil == Val("nil", "", "", 0, << >>)
\* the outcome of a step that ends in a run-time panic
Panic == Val("PANIC", "", "", 0, << >>)

\* types.NewErr(msg), allocated at selector step tag
NewErr(msg, tag) == Val("err", "", msg, tag, << >>)
\* types.Unknown{id}
Unknown(id) == Val("unk", "", "", id, << >>)

IsErr(v) == v.kind = "err"
IsUnknown(v) == v.kind = "unk"
IsSentinel(v) == IsErr(v) \/ IsUnknown(v)

\* types.ValOrErr(val, msg): val when it is an error or unknown, else a new error
ValOrErr(v, msg, tag) == IF IsSentinel(v) THEN v ELSE NewErr(msg, tag)

MapKinds == {"mapIface", "mapString", "mapFloat32", "mapFloat64", "mapInt",
             "mapInt32", "mapInt64", "mapBool"}
ListKinds == {"listIface", "listString", "listFloat32", "listFloat64", "listInt",
              "listInt32", "listInt64"}
ProtoKinds == {"pbAny", "pbAnyNil", "pbValue", "pbValueNil", "pbStruct",
               "pbListValue", "pbOther"}

\* m[key] of a Go map: the entry, if any
HasKey(kids, key) == \E k \in DOMAIN kids : kids[k].key = key
Lookup(kids, key) == kids[CHOOSE k \in DOMAIN kids : kids[k].key = key].val

\* the type assertions elem.(types.String) and elem.(types.Int)
IsString(k) == k.kind = "refval" /\ k.t = "string"
IsInt(k) == k.kind = "refval" /\ k.t = "int"

\* defaultResolver.getElem, case map[string]interface{} (lines 178-187)
getMapIFaceVal(m, k, tag) ==
    IF ~IsString(k) THEN ValOrErr(k, "no such overload", tag)
    ELSE IF ~HasKey(m.kids, k.s) THEN NewErr("no such key", tag)
    ELSE Lookup(m.kids, k.s)

getMapStrVal(m, k, tag) ==
    IF ~IsString(k) THEN ValOrErr(k, "no such overload", tag)
    ELSE IF ~HasKey(m.kids, k.s) THEN NewErr("no such key", tag)
    ELSE Lookup(m.kids, k.s)

\* In the six functions below the result of ValOrErr is dropped and the
\* function goes on with key = "", the zero value of the failed assertion.
getMapFloat32Val(m, k, tag) ==
    LET key == IF IsString(k) THEN k.s ELSE "" IN
    IF ~HasKey(m.kids, key) THEN NewErr("no such key", tag) ELSE Lookup(m.kids, key)

getMapFloat64Val(m, k, tag) ==
    LET key == IF IsString(k) THEN k.s ELSE "" IN
    IF ~HasKey(m.kids, key) THEN NewErr("no such key", tag) ELSE Lookup(m.kids, key)

getMapIntVal(m, k, tag) ==
    LET key == IF IsString(k) THEN k.s ELSE "" IN
    IF ~HasKey(m.kids, key) THEN NewErr("no such key", tag) ELSE Lookup(m.kids, key)

getMapInt32Val(m, k, tag) ==
    LET key == IF IsString(k) THEN k.s ELSE "" IN
    IF ~HasKey(m.kids, key) THEN NewErr("no such key", tag) ELSE Lookup(m.kids, key)

getMapInt64Val(m, k, tag) ==
    LET key == IF IsString(k) THEN k.s ELSE "" IN
    IF ~HasKey(m.kids, key) THEN NewErr("no such key", tag) ELSE Lookup(m.kids, key)

getMapBoolVal(m, k, tag) ==
    LET key == IF IsString(k) THEN k.s ELSE "" IN
    IF ~HasKey(m.kids, key) THEN NewErr("no such key", tag) ELSE Lookup(m.kids, key)

\* getListIFaceVal with the upper bound test off by one
getListIFaceValOffByOne(l, i, tag) ==
    IF ~IsInt(i) THEN ValOrErr(i, "no such overload", tag)
    ELSE IF i.n < 0 \/ i.n > Len(l.kids) THEN ValOrErr(i, "index out of range", tag)
    ELSE IF i.n >= Len(l.kids) THEN Panic
    ELSE At(l.kids, i.n).val

getListIFaceVal(l, i, tag) ==
    IF ~IsInt(i) THEN ValOrErr(i, "no such overload", tag)
    ELSE IF i.n < 0 \/ i.n >= Len(l.kids) THEN ValOrErr(i, "index out of range", tag)
    ELSE At(l.kids, i.n).val

getListStrVal(l, i, tag) ==
    IF ~IsInt(i) THEN ValOrErr(i, "no such overload", tag)
    ELSE IF i.n < 0 \/ i.n >= Len(l.kids) THEN ValOrErr(i, "index out of range", tag)
    ELSE At(l.kids, i.n).val

getListFloat32Val(l, i, tag) ==
    IF ~IsInt(i) THEN ValOrErr(i, "no such overload", tag)
    ELSE IF i.n < 0 \/ i.n >= Len(l.kids) THEN ValOrErr(i, "index out of range", tag)
    ELSE At(l.kids, i.n).val

getListFloat64Val(l, i, tag) ==
    IF ~IsInt(i) THEN ValOrErr(i, "no such overload", tag)
    ELSE IF i.n < 0 \/ i.n >= Len(l.kids) THEN ValOrErr(i, "index out of range", tag)
    ELSE At(l.kids, i.n).val

getListIntVal(l, i, tag) ==
    IF ~IsInt(i) THEN ValOrErr(i, "no such overload", tag)
    ELSE IF i.n < 0 \/ i.n >= Len(l.kids) THEN ValOrErr(i, "index out of range", tag)
    ELSE At(l.kids, i.n).val

getListInt32Val(l, i, tag) ==
    IF ~IsInt(i) THEN ValOrErr(i, "no such overload", tag)
    ELSE IF i.n < 0 \/ i.n >= Len(l.kids) THEN ValOrErr(i, "index out of range", tag)
    ELSE At(l.kids, i.n).val

getListInt64Val(l, i, tag) ==
    IF ~IsInt(i) THEN ValOrErr(i, "no such overload", tag)
    ELSE IF i.n < 0 \/ i.n >= Len(l.kids) THEN ValOrErr(i, "index out of range", tag)
    ELSE At(l.kids, i.n).val

\* maybeUnwrapValue: v.Kind of a nil *structpb.Value is a nil dereference
maybeUnwrapValue(v) ==
    CASE v.kind = "pbValueNil" -> Panic
      [] v.kind = "pbValue" /\ v.t = "bool" -> Native("bool", "", v.n)
      [] v.kind = "pbValue" /\ v.t = "null" -> NullValue
      [] v.kind = "pbValue" /\ v.t = "number" -> Native("float64", "", v.n)
      [] v.kind = "pbValue" /\ v.t = "string" -> Native("string", v.s, 0)
      [] OTHER -> v

\* the fields of a nil *structpb.Struct and the values of a nil
\* *structpb.ListValue are empty: GetFields and GetValues are nil-safe
getStructField(m, k, tag) ==
    IF ~IsString(k) THEN ValOrErr(k, "no such overload", tag)
    ELSE IF ~HasKey(m.kids, k.s) THEN NewErr("no such key", tag)
    ELSE maybeUnwrapValue(Lookup(m.kids, k.s))

getListValueElem(l, i, tag) ==
    IF ~IsInt(i) THEN ValOrErr(i, "no such overload", tag)
    ELSE IF i.n < 0 \/ i.n >= Len(l.kids) THEN NewErr("index out of range", tag)
    ELSE maybeUnwrapValue(At(l.kids, i.n).val)

\* traits.Indexer.Get of the engine's own map value
IndexerGet(o, elem, tag) ==
    IF IsSentinel(elem) THEN elem
    ELSE IF ~IsString(elem) THEN NewErr("no such overload", tag)
    ELSE IF ~HasKey(o.kids, elem.s) THEN NewErr("no such key", tag)
    ELSE Lookup(o.kids, elem.s)

\* ref.TypeAdapter.NativeToValue: an indexable value when the native value
\* has entries the adapter understands (t = "indexable"), else an opaque one
NativeToValue(o) ==
    IF o.t = "indexable" THEN Val("indexer", "", "", 0, o.kids)
    ELSE Val("refval", "opaque", "", 0, << >>)

\* val.(traits.Indexer): indexer.Get(elem) when val is an indexer, else
\* types.ValOrErr(val, "no such overload")
GetOrErr(val, elem, tag) ==
    IF val.kind = "indexer" THEN IndexerGet(val, elem, tag)
    ELSE ValOrErr(val, "no such overload", tag)

RECURSIVE getProtoField(_, _, _)
getProtoField(o, elem, tag) ==
    CASE o.kind = "pbAnyNil" -> NewErr("unsupported type conversion", tag)
      [] o.kind = "pbAny" ->
           IF o.t = "bad" THEN NewErr("unknown type", tag)
           ELSE getProtoField(o.kids[1].val, elem, tag)
      [] o.kind = "pbValueNil" -> NewErr("no such overload", tag)
      [] o.kind = "pbValue" ->
           IF o.t = "struct"
           THEN getProtoField(Val("pbStruct", "", "", 0, o.kids), elem, tag)
           ELSE IF o.t = "list"
           THEN getProtoField(Val("pbListValue", "", "", 0, o.kids), elem, tag)
           ELSE NewErr("no such overload", tag)
      [] o.kind = "pbStruct" -> getStructField(o, elem, tag)
      [] o.kind = "pbListValue" -> getListValueElem(o, elem, tag)
      [] OTHER -> GetOrErr(NativeToValue(o), elem, tag)

\* getElem with errors and unknowns treated like any other ref.Val
getElemNoPassThrough(obj, elem, tag) ==
    CASE obj.kind = "mapIface" -> getMapIFaceVal(obj, elem, tag)
      [] obj.kind = "mapString" -> getMapStrVal(obj, elem, tag)
      [] obj.kind = "mapFloat32" -> getMapFloat32Val(obj, elem, tag)
      [] obj.kind = "mapFloat64" -> getMapFloat64Val(obj, elem, tag)
      [] obj.kind = "mapInt" -> getMapIntVal(obj, elem, tag)
      [] obj.kind = "mapInt32" -> getMapInt32Val(obj, elem, tag)
      [] obj.kind = "mapInt64" -> getMapInt64Val(obj, elem, tag)
      [] obj.kind = "mapBool" -> getMapBoolVal(obj, elem, tag)
      [] obj.kind = "listIface" -> getListIFaceVal(obj, elem, tag)
      [] obj.kind = "listString" -> getListStrVal(obj, elem, tag)
      [] obj.kind = "listFloat32" -> getListFloat32Val(obj, elem, tag)
      [] obj.kind = "listFloat64" -> getListFloat64Val(obj, elem, tag)
      [] obj.kind = "listInt" -> getListIntVal(obj, elem, tag)
      [] obj.kind = "listInt32" -> getListInt32Val(obj, elem, tag)
      [] obj.kind = "listInt64" -> getListInt64Val(obj, elem, tag)
      [] obj.kind \in ProtoKinds -> getProtoField(obj, elem, tag)
      [] obj.kind = "indexer" -> IndexerGet(obj, elem, tag)
      [] obj.kind \in {"err", "unk"} -> NewErr("no such overload", tag)
      [] obj.kind = "refval" -> ValOrErr(obj, "no such overload", tag)
      [] obj.kind = "nil" -> Panic
      [] obj.kind = "nativeMap" -> GetOrErr(NativeToValue(obj), elem, tag)
      [] OTHER -> NewErr("no such overload", tag)

\* defaultResolver.getElem
getElem(obj, elem, tag) ==
    CASE obj.kind = "mapIface" -> getMapIFaceVal(obj, elem, tag)
      [] obj.kind = "mapString" -> getMapStrVal(obj, elem, tag)
      [] obj.kind = "mapFloat32" -> getMapFloat32Val(obj, elem, tag)
      [] obj.kind = "mapFloat64" -> getMapFloat64Val(obj, elem, tag)
      [] obj.kind = "mapInt" -> getMapIntVal(obj, elem, tag)
      [] obj.kind = "mapInt32" -> getMapInt32Val(obj, elem, tag)
      [] obj.kind = "mapInt64" -> getMapInt64Val(obj, elem, tag)
      [] obj.kind = "mapBool" -> getMapBoolVal(obj, elem, tag)
      [] obj.kind = "listIface" -> getListIFaceVal(obj, elem, tag)
      [] obj.kind = "listString" -> getListStrVal(obj, elem, tag)
      [] obj.kind = "listFloat32" -> getListFloat32Val(obj, elem, tag)
      [] obj.kind = "listFloat64" -> getListFloat64Val(obj, elem, tag)
      [] obj.kind = "listInt" -> getListIntVal(obj, elem, tag)
      [] obj.kind = "listInt32" -> getListInt32Val(obj, elem, tag)
      [] obj.kind = "listInt64" -> getListInt64Val(obj, elem, tag)
      [] obj.kind \in ProtoKinds -> getProtoField(obj, elem, tag)
      [] obj.kind = "indexer" -> IndexerGet(obj, elem, tag)
      [] obj.kind \in {"err", "unk"} -> obj
      [] obj.kind = "refval" -> ValOrErr(obj, "no such overload", tag)
      [] obj.kind = "nil" -> Panic
      [] obj.kind = "nativeMap" -> GetOrErr(NativeToValue(obj), elem, tag)
      [] OTHER -> NewErr("no such overload", tag)

(***************************************************************************)
(* The data the resolvers are run on.  A repeated field or a map field of  *)
(* a protobuf message holds no nil element.                                *)
(***************************************************************************)
\* a sequence of ListLen native scalars of type t
Scalars(t) == [k \in 1..ListLen |-> Entry("", Native(t, "", k))]

mString == Val("mapString", "", "", 0, << Entry("a", Native("string", "x", 0)) >>)
mFloat32 == Val("mapFloat32", "", "", 0, << Entry("a", Native("float32", "", 1)) >>)
mFloat64 == Val("mapFloat64", "", "", 0, << Entry("a", Native("float64", "", 1)) >>)
mInt == Val("mapInt", "", "", 0, << Entry("a", Native("int", "", 1)) >>)
mInt32 == Val("mapInt32", "", "", 0,
              << Entry("", Native("int32", "", 9)), Entry("a", Native("int32", "", 1)) >>)
mInt64 == Val("mapInt64", "", "", 0, << Entry("a", Native("int64", "", 1)) >>)
mBool == Val("mapBool", "", "", 0, << Entry("a", Native("bool", "", 1)) >>)

lString == Val("listString", "", "", 0, Scalars("string"))
lFloat32 == Val("listFloat32", "", "", 0, Scalars("float32"))
lFloat64 == Val("listFloat64", "", "", 0, Scalars("float64"))
lInt == Val("listInt", "", "", 0, Scalars("int"))
lInt32 == Val("listInt32", "", "", 0, Scalars("int32"))
lInt64 == Val("listInt64", "", "", 0, Scalars("int64"))
\* []interface{}{map[string]string{...}, nil, 3, ...}
lIface == Val("listIface", "", "", 0,
              [k \in 1..ListLen |->
                  Entry("", IF k = 1 THEN mString
                            ELSE IF k = 2 THEN GoNil
                            ELSE Native("int", "", k))])

\* the data of json.Unmarshal of {"a": {"a": "x"}} and of {"a": null}, and
\* two maps holding a sentinel an earlier evaluation stored
mIface == Val("mapIface", "", "", 0, << Entry("a", mString) >>)
mIfaceNull == Val("mapIface", "", "", 0, << Entry("a", GoNil) >>)
mIfaceErr == Val("mapIface", "", "", 0, << Entry("a", NewErr("stored error", 0)) >>)
mIfaceUnk == Val("mapIface", "", "", 0, << Entry("a", Unknown(7)) >>)

pbNumber == Val("pbValue", "number", "", 1, << >>)
pbString == Val("pbValue", "string", "x", 0, << >>)
pbBool == Val("pbValue", "bool", "", 1, << >>)
pbNull == Val("pbValue", "null", "", 0, << >>)
pbUnset == Val("pbValue", "unset", "", 0, << >>)
pbListValue == Val("pbListValue", "", "", 0,
                   [k \in 1..ListLen |->
                       Entry("", IF k = 1 THEN pbString
                                 ELSE IF k = 2 THEN pbBool ELSE pbNumber)])
pbInnerStruct == Val("pbValue", "struct", "", 0, << Entry("a", pbString) >>)
pbInnerList == Val("pbValue", "list", "", 0, pbListValue.kids)
pbStruct == Val("pbStruct", "", "", 0,
                << Entry("a", pbNumber), Entry("s", pbInnerStruct),
                   Entry("l", pbInnerList), Entry("z", pbNull) >>)
\* a nil *structpb.Struct and a nil *structpb.ListValue
pbStructNil == Val("pbStruct", "nil", "", 0, << >>)
pbListValueNil == Val("pbListValue", "nil", "", 0, << >>)
pbAny == Val("pbAny", "ok", "", 0, << Entry("", pbStruct) >>)
pbAnyBad == Val("pbAny", "bad", "", 0, << >>)
pbAnyNil == Val("pbAnyNil", "", "", 0, << >>)
pbValueNil == Val("pbValueNil", "", "", 0, << >>)
pbOther == Val("pbOther", "indexable", "", 0, << Entry("a", Int_(1)) >>)
pbOpaque == Val("pbOther", "opaque", "", 0, << >>)
celMap == Val("indexer", "", "", 0, << Entry("a", Int_(1)) >>)
nativeMap == Val("nativeMap", "indexable", "", 0, << Entry("a", Int_(1)) >>)
nativeArray == Val("nativeMap", "opaque", "", 0, << >>)

\* Activation.Find: the bindings of the activation
Bindings ==
    << Entry("mIface", mIface), Entry("mIfaceNull", mIfaceNull),
       Entry("mIfaceErr", mIfaceErr), Entry("mIfaceUnk", mIfaceUnk),
       Entry("mString", mString),
       Entry("mFloat32", mFloat32), Entry("mFloat64", mFloat64),
       Entry("mInt", mInt), Entry("mInt32", mInt32), Entry("mInt64", mInt64),
       Entry("mBool", mBool), Entry("lIface", lIface), Entry("lString", lString),
       Entry("lFloat32", lFloat32), Entry("lFloat64", lFloat64),
       Entry("lInt", lInt), Entry("lInt32", lInt32), Entry("lInt64", lInt64),
       Entry("pbStruct", pbStruct), Entry("pbListValue", pbListValue),
       Entry("pbInnerStruct", pbInnerStruct), Entry("pbUnset", pbUnset),
       Entry("pbStructNil", pbStructNil), Entry("pbListValueNil", pbListValueNil),
       Entry("pbAny", pbAny), Entry("pbAnyBad", pbAnyBad), Entry("pbAnyNil", pbAnyNil),
       Entry("pbValueNil", pbValueNil), Entry("pbOther", pbOther),
       Entry("pbOpaque", pbOpaque), Entry("celMap", celMap),
       Entry("nativeMap", nativeMap), Entry("nativeArray", nativeArray),
       Entry("err", NewErr("stored error", 0)), Entry("unk", Unknown(7)),
       Entry("five", Int_(5)), Entry("scalar", Native("int", "", 5)) >>

\* variable names no activation binds
AbsentNames == {"absent", "absentU"}
VarNames == {Bindings[k].key : k \in DOMAIN Bindings} \cup AbsentNames

\* the selector values elem.ToValue(vars) yields
Selectors ==
    {String("a"), String("zz"), Int_(0 - 1), Int_(0), Int_(ListLen - 1), Int_(ListLen),
     Bool_(TRUE), NewErr("bad selector", 0), Unknown(9)}
Paths == UNION {[1..n -> Selectors] : n \in 0..MaxPathLen}

\* the wildcard of declared-unknown attributes
wildcard == String("*")

\* PartialActivation.FindUnknowns: the declared-unknown attributes, by variable
Unknowns ==
    << Entry("absentU", << << String("a") >> >>),
       Entry("mIface", << << String("zz") >>, << String("a"), wildcard >> >>),
       Entry("lInt", << << >> >>),
       Entry("mIfaceUnk", << << String("zz") >> >>),
       Entry("five", << << String("a") >>, << String("a"), wildcard >>, << >> >>) >>

\* the activations: a plain one, and a partial one with the same bindings
Activations == << [partial |-> FALSE], [partial |-> TRUE] >>

\* attr.Variable().ID() and PathElem.ID: the variable and its selectors are
\* numbered in order
VarID == 1
ElemID(j) == VarID + j

(***************************************************************************)
(* The resolvers.  A resolution yields value and found, and for the        *)
(* analysis steps (the object after each selector step) and fault (a step  *)
(* ended in a panic).                                                      *)
(***************************************************************************)
\* the loops of Resolve (lines 156-158) and ResolveRelative (lines 167-169)
RECURSIVE WalkFrom(_, _, _, _)
\* obj = res.getElem(...): the walk goes on from nxt, unless the step panicked
WalkOn(nxt, path, k, steps) ==
    IF nxt = Panic
    THEN [value |-> Panic, steps |-> Append(steps, Panic), fault |-> TRUE]
    ELSE WalkFrom(nxt, path, k + 1, Append(steps, nxt))

WalkFrom(obj, path, k, steps) ==
    IF k > Len(path) THEN [value |-> obj, steps |-> steps, fault |-> FALSE]
    ELSE WalkOn(getElem(obj, path[k], k), path, k, steps)

\* return obj, true
Found(w) == [value |-> w.value, found |-> TRUE, steps |-> w.steps, fault |-> w.fault]

\* Resolve reporting an absent variable as an error value
DefaultResolveAbsentAsError(act, name, path) ==
    IF ~HasKey(Bindings, name)
    THEN [value |-> NewErr("no such attribute", 0), found |-> TRUE, steps |-> << >>,
          fault |-> FALSE]
    ELSE Found(WalkFrom(Lookup(Bindings, name), path, 1, << >>))

\* defaultResolver.Resolve
DefaultResolve(act, name, path) ==
    IF ~HasKey(Bindings, name)
    THEN [value |-> GoNil, found |-> FALSE, steps |-> << >>, fault |-> FALSE]
    ELSE Found(WalkFrom(Lookup(Bindings, name), path, 1, << >>))

\* a ResolveRelative skipping the first selector of the path
DefaultResolveRelativeSkipFirst(obj, act, path) == Found(WalkFrom(obj, path, 2, << >>))

\* defaultResolver.ResolveRelative
DefaultResolveRelative(obj, act, path) == Found(WalkFrom(obj, path, 1, << >>))

\* candElemVal.Equal(varElemVal) == types.True, for the selector values
EqualTrue(a, b) == a.kind = "refval" /\ b.kind = "refval" /\ a = b

\* the candidate loop with the wildcard compared like any other element
RECURSIVE MatchFromNoWildcard(_, _, _, _)
MatchFromNoWildcard(candPath, varPath, j, candUnkID) ==
    IF j > Len(candPath) \/ j > Len(varPath)
    THEN [isMatch |-> TRUE, candUnkID |-> candUnkID]
    ELSE IF ~EqualTrue(candPath[j], varPath[j])
    THEN [isMatch |-> FALSE, candUnkID |-> ElemID(j)]
    ELSE MatchFromNoWildcard(candPath, varPath, j + 1, ElemID(j))

\* unknownResolver.Resolve, lines 565-582: one candidate against the path
RECURSIVE MatchFrom(_, _, _, _)
MatchFrom(candPath, varPath, j, candUnkID) ==
    IF j > Len(candPath) \/ j > Len(varPath)
    THEN [isMatch |-> TRUE, candUnkID |-> candUnkID]
    ELSE IF candPath[j] = wildcard
    THEN MatchFrom(candPath, varPath, j + 1, ElemID(j))
    ELSE IF ~EqualTrue(candPath[j], varPath[j])
    THEN [isMatch |-> FALSE, candUnkID |-> ElemID(j)]
    ELSE MatchFrom(candPath, varPath, j + 1, ElemID(j))

\* unknownResolver.Resolve, lines 564-587: the candidates in their order
RECURSIVE FirstMatch(_, _, _)
\* the candidate loop returning the last matching candidate's sentinel
MatchOrNextLast(m, cands, varPath, c) ==
    IF m.isMatch /\ ~FirstMatch(cands, varPath, c + 1).isMatch THEN m
    ELSE FirstMatch(cands, varPath, c + 1)

\* if isMatch { return ... }, else the next candidate
MatchOrNext(m, cands, varPath, c) ==
    IF m.isMatch THEN m ELSE FirstMatch(cands, varPath, c + 1)

FirstMatch(cands, varPath, c) ==
    IF c > Len(cands) THEN [isMatch |-> FALSE, candUnkID |-> 0]
    ELSE MatchOrNext(MatchFrom(cands[c], varPath, 1, VarID), cands, varPath, c)

\* lines 552-587: the match of the first matching candidate; none when the
\* activation is not partial or declares no unknown of that name
CandidateMatch(act, name, path) ==
    IF ~Activations[act].partial \/ ~HasKey(Unknowns, name)
    THEN [isMatch |-> FALSE, candUnkID |-> 0]
    ELSE FirstMatch(Lookup(Unknowns, name), path, 1)

\* the unknown-aware resolver answering "not found" itself when no candidate
\* matches
UnknownOrNotFound(m, act, name, path) ==
    IF m.isMatch
    THEN [value |-> Unknown(m.candUnkID), found |-> TRUE, steps |-> << >>,
          fault |-> FALSE]
    ELSE [value |-> GoNil, found |-> FALSE, steps |-> << >>, fault |-> FALSE]

\* return types.Unknown{candUnkID}, true, else res.Resolver.Resolve(vars, attr)
UnknownOrDelegate(m, act, name, path) ==
    IF m.isMatch
    THEN [value |-> Unknown(m.candUnkID), found |-> TRUE, steps |-> << >>,
          fault |-> FALSE]
    ELSE DefaultResolve(act, name, path)

\* unknownResolver.Resolve, wrapping the default resolver
UnknownResolve(act, name, path) ==
    UnknownOrDelegate(CandidateMatch(act, name, path), act, name, path)

\* ResolveStatus (lines 114-128)
FoundAttribute == 1
NoSuchVariable == 2
NoSuchAttribute == 4
UnknownAttribute == 8

\* ancestorAttr cutting the path before the element with the ancestor's id
ancestorAttrExclusive(name, path, ancestorID) ==
    IF VarID = ancestorID THEN [name |-> name, path |-> << >>]
    ELSE IF \E i \in DOMAIN path : ElemID(i) = ancestorID
    THEN LET i == CHOOSE i \in DOMAIN path : ElemID(i) = ancestorID
         IN [name |-> name, path |-> SubSeq(path, 1, i - 1)]
    ELSE [name |-> name, path |-> path]

\* ancestorAttr
ancestorAttr(name, path, ancestorID) ==
    IF VarID = ancestorID THEN [name |-> name, path |-> << >>]
    ELSE IF \E i \in DOMAIN path : ElemID(i) = ancestorID
    THEN LET i == CHOOSE i \in DOMAIN path :
                      /\ ElemID(i) = ancestorID
                      /\ \A h \in DOMAIN path : ElemID(h) = ancestorID => i <= h
         IN [name |-> name, path |-> SubSeq(path, 1, i)]
    ELSE [name |-> name, path |-> path]

\* listeningResolver.Resolve, wrapping the unknown-aware resolver: the result
\* and the calls of the listener
\* lines 504-525: the calls of the listener for the result r of the wrapped
\* resolver
Listen(r, attr) ==
    IF r.fault THEN << >>
    ELSE IF ~r.found THEN << [attr |-> attr, status |-> NoSuchVariable] >>
    ELSE IF IsUnknown(r.value)
    THEN << [attr |-> ancestorAttr(attr.name, attr.path, r.value.n),
             status |-> UnknownAttribute] >>
    ELSE IF IsErr(r.value) THEN << [attr |-> attr, status |-> NoSuchAttribute] >>
    ELSE << [attr |-> attr, status |-> FoundAttribute] >>

Reported(r, attr) == [r |-> r, events |-> Listen(r, attr)]

ListeningResolve(act, name, path) ==
    Reported(UnknownResolve(act, name, path), [name |-> name, path |-> path])

(***************************************************************************)
(* The resolver state machine: every step is one call of a resolver, and   *)
(* res records the call and its outcome.                                   *)
(***************************************************************************)
Outcome(op, resolver, act, name, path, r, events) ==
    [op |-> op, resolver |-> resolver, act |-> act, name |-> name, path |-> path,
     value |-> r.value, found |-> r.found, steps |-> r.steps, fault |-> r.fault,
     events |-> events, obj |-> GoNil]

ListeningOutcome(act, name, path, l) ==
    Outcome("Resolve", "listening", act, name, path, l.r, l.events)

\* the call the next step makes: a resolution of the attribute name.path
\* under the activation act
Pending(act, name, path) ==
    [op |-> "pending", resolver |-> "", act |-> act, name |-> name, path |-> path,
     value |-> GoNil, found |-> FALSE, steps |-> << >>, fault |-> FALSE,
     events |-> << >>, obj |-> GoNil]

ResolveDefault ==
    /\ res.op = "pending"
    /\ res' = Outcome("Resolve", "default", res.act, res.name, res.path,
                      DefaultResolve(res.act, res.name, res.path), << >>)
    /\ UNCHANGED progVars

ResolveUnknown ==
    /\ res.op = "pending"
    /\ res' = Outcome("Resolve", "unknown", res.act, res.name, res.path,
                      UnknownResolve(res.act, res.name, res.path), << >>)
    /\ UNCHANGED progVars

ResolveListening ==
    /\ res.op = "pending"
    /\ res' = ListeningOutcome(res.act, res.name, res.path,
                               ListeningResolve(res.act, res.name, res.path))
    /\ UNCHANGED progVars

\* the objects ResolveRelative is called on for an attribute of the variable
\* name: the value bound to name, and for a variable the activation does not
\* bind an object an earlier step produced
DetachedObjects == {lIface, mIface, Int_(5)}
RelativeObjects(name) ==
    IF HasKey(Bindings, name) THEN {Lookup(Bindings, name)} ELSE DetachedObjects

\* the recorded call of ResolveRelative on the object o
RelativeOutcome(o, r) == [r EXCEPT !.obj = o]

ResolveRelative ==
    /\ res.op = "pending"
    /\ \E o \in RelativeObjects(res.name) :
           res' = RelativeOutcome(o,
                      Outcome("ResolveRelative", "default", res.act, res.name,
                              res.path,
                              DefaultResolveRelative(o, res.act, res.path), << >>))
    /\ UNCHANGED progVars

ResolverInit ==
    /\ expression = 1
    /\ flags = 0
    /\ Instructions = << >>
    /\ instNil = TRUE
    /\ revInstructions = [id \in {} |-> 0]
    /\ resultID = 0
    /\ values = [i \in NodeIDs |-> Nil]
    /\ pc = "idle"
    /\ lastPass = NoPass
    /\ emitLiterals = FALSE
    /\ emptyIsNil = FALSE
    /\ lastOp = "new"
    /\ eval = NoEval
    /\ \E act \in DOMAIN Activations, name \in VarNames, path \in Paths :
           res = Pending(act, name, path)

ResolverNext ==
    \/ ResolveDefault
    \/ ResolveUnknown
    \/ ResolveListening
    \/ ResolveRelative

ResolverSpec == ResolverInit /\ [][ResolverNext]_vars

(***************************************************************************)
(* Helpers of the properties of the resolvers.                             *)
(***************************************************************************)
IsCall == res.op \in {"Resolve", "ResolveRelative"}

\* the object the k-th selector step of the latest call was applied to
ObjBefore(k) ==
    IF k > 1 THEN res.steps[k - 1]
    ELSE IF res.op = "ResolveRelative" THEN res.obj
    ELSE Lookup(Bindings, res.name)

Min(a, b) == IF a < b THEN a ELSE b

\* the candidate matches the path element by element up to the shorter length
PrefixMatch(cand, path) ==
    \A j \in 1..Min(Len(cand), Len(path)) :
        cand[j] = wildcard \/ (path[j].kind = "refval" /\ cand[j] = path[j])

\* the latest call went through the unknown-aware resolver, on a partial
\* activation with a declared-unknown attribute that matches the queried one
UnknownMatched ==
    /\ res.resolver \in {"unknown", "listening"}
    /\ Activations[res.act].partial
    /\ HasKey(Unknowns, res.name)
    /\ \E c \in DOMAIN Lookup(Unknowns, res.name) :
           PrefixMatch(Lookup(Unknowns, res.name)[c], res.path)

\* some selector step of the latest call met a string-keyed map without the
\* key the string selector names
HitMissingKey ==
    \E k \in DOMAIN res.steps :
        /\ ObjBefore(k).kind \in MapKinds
        /\ IsString(res.path[k])
        /\ ~HasKey(ObjBefore(k).kids, res.path[k].s)

(***************************************************************************)
(* C6, as claimed: for each resolver, Resolve returns found = false        *)
(* exactly when the attribute's variable is absent from the activation;    *)
(* when the variable is present and a selector step hits a missing map     *)
(* key, Resolve returns found = true together with an error sentinel.      *)
(***************************************************************************)
C6_FoundIffPresent ==
    res.op = "Resolve" =>
        /\ (~res.fault /\ ~res.found) <=> ~HasKey(Bindings, res.name)
        /\ (HasKey(Bindings, res.name) /\ HitMissingKey) =>
               (res.found /\ IsErr(res.value))

(***************************************************************************)
(* C6, amended: Resolve returns found = false exactly when the variable is *)
(* absent from the activation and no declared-unknown attribute of a       *)
(* partial activation matches the queried attribute in the unknown-aware   *)
(* resolver (alone or under the listening resolver); such a match returns  *)
(* found = true with an unknown sentinel.  When the variable is present    *)
(* and a selector step hits a missing map key, Resolve returns found =     *)
(* true and the "no such key" error sentinel.                              *)
(***************************************************************************)
C6_FoundAbsent ==
    res.op = "Resolve" =>
        /\ (~res.fault /\ ~res.found) <=>
               (~HasKey(Bindings, res.name) /\ ~UnknownMatched)
        /\ UnknownMatched => (res.found /\ IsUnknown(res.value))
        /\ (HasKey(Bindings, res.name) /\ HitMissingKey) =>
               (res.found /\ IsErr(res.value) /\ res.value.s = "no such key")

\* a present variable whose second selector names a key its map lacks
C6_Witness ==
    /\ res.op = "Resolve"
    /\ res.resolver = "listening"
    /\ res.name = "mIface"
    /\ res.path = << String("a"), String("zz") >>
    /\ res.found
    /\ IsErr(res.value)

(***************************************************************************)
(* C7: dominance.  In Resolve and ResolveRelative, once a selector step    *)
(* yields an error or unknown sentinel, every later step yields that same  *)
(* sentinel, and it is the result.                                         *)
(***************************************************************************)
C7_Dominance ==
    IsCall =>
        \A k \in DOMAIN res.steps :
            IsSentinel(res.steps[k]) =>
                /\ \A h \in DOMAIN res.steps : h > k => res.steps[h] = res.steps[k]
                /\ res.value = res.steps[k]

\* the first step made an error and a further step was applied to it
C7_Witness ==
    /\ res.op = "ResolveRelative"
    /\ Len(res.steps) >= 2
    /\ IsErr(res.steps[1])
    /\ res.steps[1].n = 1
    /\ ~IsSentinel(res.path[2])
    /\ res.value = res.steps[1]

(***************************************************************************)
(* C8: the policy of string-keyed maps.  For every string-keyed map shape  *)
(* a string selector naming a missing key yields "no such key", a string   *)
(* selector naming a present key yields the key's value, and a selector    *)
(* that is no string (and no sentinel itself) yields "no such overload".   *)
(***************************************************************************)
C8_StringKeyedMaps ==
    IsCall =>
        \A k \in DOMAIN res.steps :
            ObjBefore(k).kind \in MapKinds =>
                LET m == ObjBefore(k)
                    sel == res.path[k]
                IN CASE IsString(sel) /\ HasKey(m.kids, sel.s) ->
                          res.steps[k] = Lookup(m.kids, sel.s)
                     [] IsString(sel) /\ ~HasKey(m.kids, sel.s) ->
                          IsErr(res.steps[k]) /\ res.steps[k].s = "no such key"
                     [] ~IsString(sel) /\ ~IsSentinel(sel) ->
                          IsErr(res.steps[k]) /\ res.steps[k].s = "no such overload"
                     [] OTHER -> TRUE

\* a selector step applied to an ordered sequence does what want says of the
\* sequence, the selector and the step's result
ListSteps(want(_, _, _)) ==
    IsCall =>
        \A k \in DOMAIN res.steps :
            ObjBefore(k).kind \in ListKinds \cup {"pbListValue"} =>
                want(ObjBefore(k), res.path[k], res.steps[k])

\* the element of the sequence l at Go index i, as a step returns it
ElementAt(l, i) ==
    IF l.kind = "pbListValue" THEN maybeUnwrapValue(At(l.kids, i).val)
    ELSE At(l.kids, i).val

C10_NoFault == IsCall => ~res.fault

(***************************************************************************)
(* Helpers of the properties of the unknown-aware resolver.                *)
(***************************************************************************)
\* the latest call is a Resolve of the unknown-aware resolver itself on a
\* partial activation
IsPartialUnknownCall ==
    /\ res.op = "Resolve"
    /\ res.resolver = "unknown"
    /\ Activations[res.act].partial

\* the value the walk of the latest call ended on
WalkedValue ==
    IF res.steps = << >> THEN Lookup(Bindings, res.name)
    ELSE res.steps[Len(res.steps)]

\* the first declared-unknown candidate of the queried name that matches
FirstMatching ==
    LET cands == Lookup(Unknowns, res.name) IN
    cands[CHOOSE c \in DOMAIN cands :
              /\ PrefixMatch(cands[c], res.path)
              /\ \A h \in DOMAIN cands : PrefixMatch(cands[h], res.path) => c <= h]

(***************************************************************************)
(* C11, as claimed: with a partial activation the unknown-aware Resolve    *)
(* returns an unknown sentinel with found = true iff some declared-unknown *)
(* candidate of the queried name matches the queried path element by       *)
(* element up to the shorter length, the wildcard matching anything.       *)
(***************************************************************************)
C11_UnknownIffMatch ==
    IsPartialUnknownCall =>
        ((res.found /\ IsUnknown(res.value)) <=> UnknownMatched)

(***************************************************************************)
(* C11, amended: if some candidate matches, Resolve returns found = true   *)
(* and an unknown sentinel tagged with the id of the last element compared *)
(* against the first matching candidate (the variable's id if none was),   *)
(* and walks no selector; if none matches, an unknown sentinel is returned *)
(* only when ordinary resolution ends on one.                              *)
(***************************************************************************)
C11_WildcardMatch ==
    IsPartialUnknownCall =>
        /\ UnknownMatched =>
               /\ res.found
               /\ res.steps = << >>
               /\ res.value =
                      Unknown(ElemID(Min(Len(FirstMatching), Len(res.path))))
        /\ (~UnknownMatched /\ IsUnknown(res.value)) =>
               /\ HasKey(Bindings, res.name)
               /\ res.value = WalkedValue

\* x.a.* is declared unknown and x.a.zz is queried
C11_Witness ==
    /\ IsPartialUnknownCall
    /\ res.name = "mIface"
    /\ res.path = << String("a"), String("zz") >>
    /\ res.value = Unknown(ElemID(2))
    /\ res.found

(***************************************************************************)
(* C12: decorator delegation.  When the activation is not partial, or no   *)
(* candidate is declared for the queried name, or no candidate matches,    *)
(* the unknown-aware Resolve returns exactly the value and found of the    *)
(* wrapped resolver for the same activation and attribute.                 *)
(***************************************************************************)
C12_Delegation ==
    (res.op = "Resolve" /\ res.resolver = "unknown" /\ ~UnknownMatched) =>
        LET inner == DefaultResolve(res.act, res.name, res.path) IN
        /\ res.value = inner.value
        /\ res.found = inner.found
        /\ res.fault = inner.fault

\* candidates are declared for the name, none matches, the wrapped resolver
\* answers
C12_Witness ==
    /\ IsPartialUnknownCall
    /\ res.name = "mIfaceUnk"
    /\ res.path = << String("a") >>
    /\ ~UnknownMatched
    /\ res.found
    /\ res.value = Unknown(7)

(***************************************************************************)
(* Helpers of the properties of the listening resolver.                    *)
(***************************************************************************)
IsListeningCall == res.op = "Resolve" /\ res.resolver = "listening"

\* the status the listener must be told for the result (value, found)
StatusOf(value, found) ==
    IF ~found THEN NoSuchVariable
    ELSE IF IsUnknown(value) THEN UnknownAttribute
    ELSE IF IsErr(value) THEN NoSuchAttribute
    ELSE FoundAttribute

\* the listener was called exactly once, with the status of the result, and
\* the result is the wrapped resolver's
Faithful ==
    LET inner == UnknownResolve(res.act, res.name, res.path) IN
    /\ ~res.fault
    /\ Len(res.events) = 1
    /\ res.events[1].status = StatusOf(res.value, res.found)
    /\ res.value = inner.value
    /\ res.found = inner.found

(***************************************************************************)
(* C13: listener fidelity.  Every Resolve call on the listening resolver   *)
(* invokes the listener exactly once and returns the wrapped resolver's    *)
(* value and found unmodified; the status is variable-absent iff found is  *)
(* false, unknown-attribute iff the value is an unknown sentinel,          *)
(* attribute-unresolvable iff it is an error sentinel, found otherwise.    *)
(***************************************************************************)
C13_ListenerFidelity == IsListeningCall => Faithful

\* the same for the calls whose wrapped resolution does not fault
FaithfulUnlessFault == (IsListeningCall /\ ~res.fault) => Faithful

(***************************************************************************)
(* The maximum raw expression id and the number of comprehension           *)
(* sub-expressions of the program's tree, stated on their own.             *)
(***************************************************************************)
MaxRawID == MaxOf(DOMAIN ExprPool[expression])
ComprehensionsOf ==
    Cardinality({i \in DOMAIN ExprPool[expression] :
                    ExprPool[expression][i].kind = "compr"})

(***************************************************************************)
(* C14: scratch-size arithmetic.  For a tree with maximum raw expression   *)
(* id M and C comprehension sub-expressions, at any nesting depth,         *)
(* MaxInstructionID returns M + 3*C in every state a step of plan,         *)
(* bindOperators or computeConstExprs is taken from, and no such step      *)
(* changes the tree the value is computed from: the value never changes.   *)
(***************************************************************************)
C14_MaxInstructionID ==
    [][/\ MaxInstructionID = MaxRawID + 3 * ComprehensionsOf
       /\ expression' = expression]_vars

\* a comprehension nested in a comprehension, planned, bound and folded
C14_Witness ==
    /\ ExprPool[expression] = ExprNested
    /\ lastOp = "fold"
    /\ pc = "idle"
    /\ MaxInstructionID = 13

(***************************************************************************)
(* C15: late binding.  bindOperators attaches the overload to a call iff   *)
(* the dispatcher finds one for the call's function name; every other      *)
(* instruction is left as it was and no failure is raised; the number,     *)
(* order and ids of the instructions and the reverse index are unchanged;  *)
(* binding again with the same dispatcher changes nothing; before plan the *)
(* operation is a no-op.                                                   *)
(***************************************************************************)
C15_LateBinding ==
    [][\A disp \in Dispatchers :
          BindOperators(disp) =>
              /\ pc' = "idle"
              /\ instNil' = instNil
              /\ revInstructions' = revInstructions
              /\ Len(Instructions') = Len(Instructions)
              /\ instNil => Instructions' = Instructions
              /\ \A k \in DOMAIN Instructions :
                     /\ Instructions'[k].id = Instructions[k].id
                     /\ IF /\ Instructions[k].kind = "call"
                           /\ FindOverload(disp, Instructions[k].fn).found
                        THEN Instructions'[k] =
                                 [Instructions[k] EXCEPT
                                     !.impl = FindOverload(disp, Instructions[k].fn).fn]
                        ELSE Instructions'[k] = Instructions[k]
                     /\ BindInst(disp, Instructions'[k]) = Instructions'[k]]_vars

\* bound with a dispatcher that has an overload for one call of the program
\* and none for another
C15_Witness ==
    /\ lastOp = "bind"
    /\ \E k, j \in DOMAIN Instructions :
           /\ Instructions[k].kind = "call" /\ Instructions[k].impl # ""
           /\ Instructions[j].kind = "call" /\ Instructions[j].impl = ""
           /\ Instructions[j].fn \in DispFull

NoWriteWhenPlanned == (eval.phase = "eval" /\ ~instNil) => eval.wrote = {}

(***************************************************************************)
(* C17: ResolveRelative applies the same path walk as Resolve.  For every  *)
(* object o, activation and attribute, ResolveRelative(o, activation,      *)
(* attribute) ends as Resolve ends for the same path under an activation   *)
(* that binds the variable to o: the same value, or the same fault.  It    *)
(* looks no variable up (an object is returned also when the activation    *)
(* does not bind the attribute's variable), and with an empty path it      *)
(* returns o itself.                                                       *)
(***************************************************************************)
\* the names the activation binds to the object o
BoundTo(o) == {Bindings[k].key : k \in {h \in DOMAIN Bindings : Bindings[h].val = o}}

\* the latest call ended as the default Resolve of name.path ends
SameAsResolve(name) ==
    /\ res.value = DefaultResolve(res.act, name, res.path).value
    /\ res.fault = DefaultResolve(res.act, name, res.path).fault
    /\ res.steps = DefaultResolve(res.act, name, res.path).steps

C17_RelativeAsResolve ==
    res.op = "ResolveRelative" =>
        /\ BoundTo(res.obj) # {}
        /\ \A name \in BoundTo(res.obj) : SameAsResolve(name)
        /\ res.found
        /\ res.path = << >> => res.value = res.obj

C17_Witness ==
    /\ res.op = "ResolveRelative"
    /\ ~HasKey(Bindings, res.name)
    /\ res.obj = lIface
    /\ Len(res.path) = 2
    /\ res.path = << Int_(0), String("a") >>
    /\ ~res.fault
    /\ res.steps[1] = mString

(***************************************************************************)
(* C18: compaction preserves survivors.  After each folding pass of        *)
(* computeConstExprs the new instruction sequence is exactly the previous  *)
(* sequence with the positions selected for removal deleted: every         *)
(* instruction not selected is present once, in its original order; and    *)
(* the splice completes without fault for every list of removal positions  *)
(* the scan produces (also with a position listed twice, or a position     *)
(* before the start of the sequence).                                      *)
(***************************************************************************)
\* the positions (from 0) the list constInsts selects for removal
Selected(constInsts) == {constInsts[k] : k \in DOMAIN constInsts}

\* insts without the instructions at the selected positions
RECURSIVE SurvivorsFrom(_, _, _)
SurvivorsFrom(insts, removed, k) ==
    IF k > Len(insts) THEN << >>
    ELSE (IF (k - 1) \in removed THEN << >> ELSE << insts[k] >>)
         \o SurvivorsFrom(insts, removed, k + 1)

Survivors(insts, constInsts) == SurvivorsFrom(insts, Selected(constInsts), 1)

C18_CompactionPreservesSurvivors ==
    [][(PassStep /\ ~instNil) =>
          /\ lastPass'.outcome # "fault"
          /\ Instructions' = Survivors(lastPass'.before, lastPass'.constInsts)]_vars

\* the list of removal positions is strictly increasing and starts at 0 or later
Increasing(constInsts) ==
    /\ \A k \in DOMAIN constInsts : constInsts[k] >= 0
    /\ \A k \in 1..(Len(constInsts) - 1) : constInsts[k] < constInsts[k + 1]

\* the splice is exact for the lists that are strictly increasing
ExactOnIncreasingLists ==
    [][(PassStep /\ ~instNil /\ Increasing(lastPass'.constInsts)) =>
          /\ lastPass'.outcome # "fault"
          /\ Instructions' = Survivors(lastPass'.before, lastPass'.constInsts)]_vars

\* a pass that folded a call other than AND/OR next to one that stayed
ExactSpliceSeen ==
    /\ lastPass.outcome = "shrunk"
    /\ Increasing(lastPass.constInsts)
    /\ Len(lastPass.constInsts) >= 1
    /\ Len(lastPass.before) > Len(lastPass.constInsts)

(***************************************************************************)
(* C19: dead-jump removal.  Whenever a binary logical AND/OR call folds,   *)
(* the extra instruction removed in that pass is the conditional jump that *)
(* implemented that call's short-circuit, and a folding pass removes no    *)
(* instruction other than folded calls and such jumps; also for a program  *)
(* planned without short-circuit (no jump emitted) and when the AND/OR     *)
(* call is the first instruction.                                          *)
(***************************************************************************)
\* the k-th instruction of insts is a call the pass that ends in state folds
\* (the arguments of a call stand before it, so their values are those the
\* scan saw when it reached the call)
FoldedInPass(insts, k, state) == Foldable(insts, k, state)

FoldedLogical(insts, k, state) ==
    /\ FoldedInPass(insts, k, state)
    /\ insts[k].fn \in {LogicalAnd, LogicalOr}

\* the k-th instruction is the conditional jump of the call at position c
JumpOf(insts, k, c) == insts[k].kind = "jump" /\ insts[k].id = JumpID(insts[c].id)

\* the positions of the jump of the call at position c
JumpsOf(insts, c) == {k \in DOMAIN insts : JumpOf(insts, k, c)}

\* the instruction before a folded AND/OR is that call's jump, when the plan
\* emitted one
ExtraIsJump(insts, state) ==
    \A c \in DOMAIN insts :
        FoldedLogical(insts, c, state) =>
            (JumpsOf(insts, c) # {} => c > 1 /\ JumpOf(insts, c - 1, c))

\* an instruction the pass removed is a folded call or a folded AND/OR's jump
OnlyFoldedRemoved(insts, after, state) ==
    \A k \in DOMAIN insts :
        insts[k].id \notin IdsOf(after) =>
            \/ FoldedInPass(insts, k, state)
            \/ \E c \in DOMAIN insts :
                   FoldedLogical(insts, c, state) /\ JumpOf(insts, k, c)

C19_DeadJumpRemoval ==
    [][(PassStep /\ ~instNil) =>
          /\ lastPass'.outcome # "fault"
          /\ ExtraIsJump(Instructions, values')
          /\ OnlyFoldedRemoved(Instructions, Instructions', values')]_vars

\* the second operand of the call at position c emitted no instruction: the
\* call's jump stands right before the call
JumpAdjacent(insts, c) == c > 1 /\ JumpOf(insts, c - 1, c)

\* the claim for the passes in which every folded AND/OR has its jump right
\* before it
DeadJumpWhenAdjacent ==
    [][(PassStep /\ ~instNil
        /\ \A c \in DOMAIN Instructions :
               FoldedLogical(Instructions, c, values') => JumpAdjacent(Instructions, c))
       => /\ lastPass'.outcome # "fault"
          /\ OnlyFoldedRemoved(Instructions, Instructions', values')]_vars

\* a pass folded an AND/OR whose jump stood right before it
DeadJumpSeen ==
    /\ lastPass.outcome = "shrunk"
    /\ \E c \in DOMAIN lastPass.before :
           /\ FoldedLogical(lastPass.before, c, values)
           /\ JumpAdjacent(lastPass.before, c)

(***************************************************************************)
(* C20: fold eligibility.  A call is folded (and its scratch value         *)
(* written) only if it has a bound implementation, its function is none of *)
(* the iteration-protocol names, it has exactly 1 or 2 arguments, every    *)
(* argument already has a value in scratch state, and any required operand *)
(* trait is satisfied by the first argument's value; a call failing any of *)
(* these conditions stays in the instruction sequence.                     *)
(***************************************************************************)
Eligible(call, state) ==
    /\ call.impl # ""
    /\ call.fn \notin ExcludedFunctions
    /\ Len(call.args) \in {1, 2}
    /\ \A a \in DOMAIN call.args : state[call.args[a]] # Nil
    /\ \/ OperandTrait(call.impl) = ""
       \/ HasTrait(state[call.args[1]], OperandTrait(call.impl))

CallsOf(insts) == {k \in DOMAIN insts : insts[k].kind = "call"}

\* a call whose scratch value the pass wrote is eligible
FoldedOnlyIfEligible(insts, before, after) ==
    \A k \in CallsOf(insts) :
        after[insts[k].id] # before[insts[k].id] => Eligible(insts[k], after)

\* a call that is not eligible is still in the sequence after the pass
IneligibleStays(insts, after, state) ==
    \A k \in CallsOf(insts) :
        ~Eligible(insts[k], state) => insts[k].id \in IdsOf(after)

C20_FoldEligibility ==
    [][(PassStep /\ ~instNil) =>
          /\ FoldedOnlyIfEligible(Instructions, values, values')
          /\ IneligibleStays(Instructions, Instructions', values')]_vars

\* the half of C20 about maybeComputeConstCall alone: it folds a call of the
\* program exactly when the call is eligible, and writes the call's value only
FoldsIffEligible ==
    \A k \in CallsOf(Instructions) :
        LET r == maybeComputeConstCall(Instructions[k], values) IN
        /\ r.ok <=> Eligible(Instructions[k], values)
        /\ \A i \in NodeIDs : i # Instructions[k].id => r.state[i] = values[i]
        /\ ~r.ok => r.state = values

\* a pass folded one call and left an ineligible one in the sequence
EligibilitySeen ==
    /\ lastPass.outcome = "shrunk"
    /\ \E k \in CallsOf(lastPass.before) :
           /\ ~Eligible(lastPass.before[k], values)
           /\ lastPass.before[k].id \in IdsOf(Instructions)

(***************************************************************************)
(* C21: unknown tag.  The unknown sentinel the unknown-aware resolver      *)
(* produces comes from the first fully matching candidate in candidate     *)
(* order and carries the expression id of the last compared element, or    *)
(* the variable's id when no element was compared (empty queried path or   *)
(* empty candidate path).                                                  *)
(***************************************************************************)
\* the id of the last element of path compared against the candidate cand
LastCompared(cand, path) ==
    IF Len(cand) = 0 \/ Len(path) = 0 THEN VarID
    ELSE IF Len(cand) < Len(path) THEN ElemID(Len(cand))
    ELSE ElemID(Len(path))

C21_UnknownTag ==
    (res.op = "Resolve" /\ UnknownMatched) =>
        /\ IsUnknown(res.value)
        /\ res.value.n = LastCompared(FirstMatching, res.path)

\* two later candidates match as well, with other tags
C21_Witness ==
    /\ res.op = "Resolve"
    /\ res.resolver = "unknown"
    /\ UnknownMatched
    /\ res.name = "five"
    /\ res.path = << String("a"), String("zz") >>
    /\ res.value = Unknown(ElemID(1))

\* a candidate that fails on its first element leaves no tag behind
C21_WitnessEmpty ==
    /\ res.op = "Resolve"
    /\ UnknownMatched
    /\ res.name = "five"
    /\ res.path = << String("zz") >>
    /\ res.value = Unknown(VarID)

(***************************************************************************)
(* C22: ancestor attribute.  For an unknown-sentinel result with origin id *)
(* k, the attribute reported to the listener is the shortest prefix of the *)
(* queried attribute (the variable alone, or the variable plus the first N *)
(* selectors) whose last element has expression id k; it keeps the queried *)
(* variable and the selectors of the prefix in their order, and when no    *)
(* element has id k the full queried attribute is reported.                *)
(***************************************************************************)
\* the prefix of the queried attribute with its first n selectors
PrefixAttr(n) == [name |-> res.name, path |-> [j \in 1..n |-> res.path[j]]]

\* the expression id of the last element of that prefix
LastID(n) == IF n = 0 THEN VarID ELSE ElemID(n)

\* the lengths of the prefixes whose last element has the id k
PrefixesWithID(k) == {n \in 0..Len(res.path) : LastID(n) = k}

ShortestPrefixWithID(k) ==
    IF PrefixesWithID(k) = {} THEN PrefixAttr(Len(res.path))
    ELSE PrefixAttr(CHOOSE n \in PrefixesWithID(k) :
                        \A m \in PrefixesWithID(k) : n <= m)

C22_AncestorAttribute ==
    (IsListeningCall /\ res.found /\ ~res.fault /\ IsUnknown(res.value)) =>
        res.events = << [attr |-> ShortestPrefixWithID(res.value.n),
                         status |-> UnknownAttribute] >>

\* five.a.zz is queried and five.a is declared unknown: five.a is reported
C22_Witness ==
    /\ IsListeningCall
    /\ res.name = "five"
    /\ res.path = << String("a"), String("zz") >>
    /\ res.value = Unknown(ElemID(1))
    /\ res.events = << [attr |-> [name |-> "five", path |-> << String("a") >>],
                       status |-> UnknownAttribute] >>

\* the unknown comes from the data and has the id of no queried element
C22_WitnessFull ==
    /\ IsListeningCall
    /\ res.value = Unknown(7)
    /\ Len(res.path) = 2
    /\ Len(res.events) = 1
    /\ res.events[1].attr = [name |-> res.name, path |-> res.path]

(***************************************************************************)
(* exprMetadata: the source positions of expression ids.  info.Positions   *)
(* maps an expression id to its byte offset; info.LineOffsets is the       *)
(* sorted table of line offsets.                                           *)
(***************************************************************************)
MetaExprIDs == 1..2

\* info.Positions: the offsets recorded for some of the ids
PositionMaps == UNION {[S -> 0..MaxOffset] : S \in SUBSET MetaExprIDs}

\* info.LineOffsets: the strictly increasing tables
LineOffsetTables ==
    {t \in UNION {[1..n -> 0..MaxOffset] : n \in 0..MaxLines} :
        \A i \in DOMAIN t : \A j \in DOMAIN t : i < j => t[i] < t[j]}

\* exprMetadata.IDOffset: a missing key reads as the zero value
IDOffset(positions, exprID) ==
    IF exprID \in DOMAIN positions
    THEN [position |-> positions[exprID], found |-> TRUE]
    ELSE [position |-> 0, found |-> FALSE]

\* the loop of IDLocation, lines 270-275, from the k-th entry on: the loop
\* variables lineIndex and lineOffset when the loop ends
RECURSIVE LineScan(_, _, _, _)
LineScan(lineOffsets, exprOffset, k, cur) ==
    IF k > Len(lineOffsets) THEN cur
    ELSE IF lineOffsets[k] > exprOffset
    THEN [lineIndex |-> cur.lineIndex, lineOffset |-> lineOffsets[k]]
    ELSE LineScan(lineOffsets, exprOffset, k + 1,
                  [lineIndex |-> k - 1, lineOffset |-> lineOffsets[k]])

\* lines 276-278: common.NewLocation(line, column), true
LocationAt(scan, exprOffset) ==
    [found |-> TRUE, line |-> scan.lineIndex + 1,
     column |-> exprOffset - scan.lineOffset]

\* lines 266-280: the branch on found
LocationOf(o, lineOffsets) ==
    IF o.found
    THEN LocationAt(LineScan(lineOffsets, o.position, 1,
                             [lineIndex |-> 0, lineOffset |-> 0]), o.position)
    ELSE [found |-> FALSE, line |-> 0, column |-> 0]

\* exprMetadata.IDLocation
IDLocation(positions, lineOffsets, exprID) ==
    LocationOf(IDOffset(positions, exprID), lineOffsets)

\* a lookup that is about to be made on a metadata object
MetaPending(positions, lineOffsets, exprID) ==
    [op |-> "lookup", positions |-> positions, lineOffsets |-> lineOffsets,
     exprID |-> exprID, found |-> FALSE, line |-> 0, column |-> 0, position |-> 0]

\* newExprMetadata(info), and the id a caller asks for
MetadataInit ==
    /\ expression = 1
    /\ flags = 0
    /\ Instructions = << >>
    /\ instNil = TRUE
    /\ revInstructions = [id \in {} |-> 0]
    /\ resultID = 0
    /\ values = [i \in NodeIDs |-> Nil]
    /\ pc = "idle"
    /\ lastPass = NoPass
    /\ emitLiterals = FALSE
    /\ emptyIsNil = FALSE
    /\ lastOp = "new"
    /\ eval = NoEval
    /\ \E positions \in PositionMaps, lineOffsets \in LineOffsetTables,
          exprID \in MetaExprIDs :
           res = MetaPending(positions, lineOffsets, exprID)

\* the recorded call of IDLocation with the location loc
LocationOutcome(loc) ==
    [res EXCEPT !.op = "IDLocation", !.found = loc.found, !.line = loc.line,
                !.column = loc.column]

CallIDLocation ==
    /\ res.op = "lookup"
    /\ res' = LocationOutcome(IDLocation(res.positions, res.lineOffsets, res.exprID))
    /\ UNCHANGED progVars

\* the recorded call of IDOffset with the result o
OffsetOutcome(o) ==
    [res EXCEPT !.op = "IDOffset", !.found = o.found, !.position = o.position]

CallIDOffset ==
    /\ res.op = "lookup"
    /\ res' = OffsetOutcome(IDOffset(res.positions, res.exprID))
    /\ UNCHANGED progVars

MetadataNext ==
    \/ CallIDLocation
    \/ CallIDOffset

MetadataSpec == MetadataInit /\ [][MetadataNext]_vars

(***************************************************************************)
(* C23: id-to-location lookup.  For an expression id with a recorded byte  *)
(* offset and a sorted table of line-start offsets, IDLocation returns     *)
(* found = true with line equal to the 1-based index of the greatest       *)
(* line-start offset not exceeding the expression's offset and column      *)
(* equal to the expression's offset minus that line-start offset (never    *)
(* negative); for an id with no recorded offset it returns not-found.      *)
(***************************************************************************)
Recorded == res.exprID \in DOMAIN res.positions

\* the lines that start at or before the expression
LinesUpTo ==
    {k \in DOMAIN res.lineOffsets : res.lineOffsets[k] <= res.positions[res.exprID]}

\* the line of the expression: the last of them
LineOfExpr == CHOOSE k \in LinesUpTo : \A h \in LinesUpTo : h <= k

C23_IDLocation ==
    res.op = "IDLocation" =>
        /\ ~Recorded => ~res.found
        /\ (Recorded /\ LinesUpTo # {}) =>
               /\ res.found
               /\ res.line = LineOfExpr
               /\ res.column = res.positions[res.exprID] - res.lineOffsets[LineOfExpr]
               /\ res.column >= 0

\* the parts of C23 the code keeps: found, the line, and the column of an
\* expression on the last line of the table
LineOfLocation ==
    res.op = "IDLocation" =>
        /\ res.found <=> Recorded
        /\ (Recorded /\ LinesUpTo # {}) =>
               /\ res.line = LineOfExpr
               /\ LineOfExpr = Len(res.lineOffsets) =>
                      res.column = res.positions[res.exprID]
                                   - res.lineOffsets[LineOfExpr]

\* an expression on the last of three lines
LastLineSeen ==
    /\ res.op = "IDLocation"
    /\ Recorded
    /\ res.lineOffsets = << 0, 2, 4 >>
    /\ res.positions[res.exprID] = 5
    /\ res.line = 3
    /\ res.column = 1

(***************************************************************************)
(* C24: fixpoint completeness.  When computeConstExprs returns, no call    *)
(* instruction at scope depth zero in the final instruction sequence       *)
(* satisfies the fold-eligibility conditions against the final scratch     *)
(* state; in particular a call whose arguments became constant only        *)
(* because another call folded has itself been folded.                     *)
(***************************************************************************)
\* computeConstExprs has returned, and nothing ran on the program since
FoldReturned == lastOp = "fold" /\ pc = "idle" /\ ~instNil

C24_FixpointComplete ==
    FoldReturned =>
        \A k \in CallsOf(Instructions) :
            DepthAt(Instructions, k) = 0 => ~Eligible(Instructions[k], values)

\* (1 + 2) * 3: the product folded on the value of the folded sum, and the
\* last pass found nothing more to fold
C24_Witness ==
    /\ FoldReturned
    /\ ExprPool[expression] = ExprChain
    /\ lastPass.outcome = "stop"
    /\ values[3] = IntV(3)
    /\ values[5] = IntV(9)
    /\ CallsOf(Instructions) = {}

\* x + (1 + 2) with x not known: the sum folded, the outer call stays
C24_WitnessStays ==
    /\ FoldReturned
    /\ ExprPool[expression] = ExprIdentAdd
    /\ lastPass.outcome = "stop"
    /\ values[4] = IntV(3)
    /\ \E k \in CallsOf(Instructions) : Instructions[k].id = 5

(***************************************************************************)
(* C25: frame of folding.  computeConstExprs writes scratch state only at  *)
(* the ids of calls it folds; the scratch values of all other expression   *)
(* ids, the implementation bound to every surviving call, and the          *)
(* expression tree are unchanged; and when the instruction sequence has    *)
(* not been planned (nil) or no call is eligible, computeConstExprs        *)
(* changes nothing.                                                        *)
(***************************************************************************)
\* the ids of the calls of insts the pass ending in state folds
FoldedIds(insts, state) ==
    {insts[k].id : k \in {c \in DOMAIN insts : FoldedInPass(insts, c, state)}}

\* the scratch state differs at the ids of folded calls only
WritesOnlyFolded(insts, before, after) ==
    \A id \in NodeIDs : after[id] # before[id] => id \in FoldedIds(insts, after)

\* every call of after is a call of insts, with the same implementation
SurvivorsKeepImpl(insts, after) ==
    \A k \in CallsOf(after) : \E c \in CallsOf(insts) : insts[c] = after[k]

\* the fields of the Program and the scratch state are as they were
ProgramUnchanged ==
    UNCHANGED <<expression, flags, Instructions, instNil, revInstructions, resultID,
                values>>

C25_FoldFrame ==
    [][PassStep =>
          /\ WritesOnlyFolded(Instructions, values, values')
          /\ SurvivorsKeepImpl(Instructions, Instructions')
          /\ expression' = expression
          /\ (instNil \/ FoldedIds(Instructions, values) = {}) => ProgramUnchanged]_vars

\* x + (1 + 2) with x not known, after the pass that folded the sum: the
\* outer call is still bound and nothing else was written
C25_Witness ==
    /\ lastPass.outcome = "shrunk"
    /\ ExprPool[expression] = ExprIdentAdd
    /\ values[4] = IntV(3)
    /\ values[1] = Nil
    /\ values[5] = Nil
    /\ \E k \in CallsOf(Instructions) :
           Instructions[k].id = 5 /\ Instructions[k].impl = "_+_"

\* a pass over a program that was never planned
C25_WitnessNil == lastOp = "fold" /\ instNil /\ resultID = 0 /\ pc = "idle"

\* a pass over size(1), whose operand lacks the trait: nothing is eligible
C25_WitnessTrait ==
    /\ lastOp = "fold"
    /\ ExprPool[expression] = ExprTrait
    /\ lastPass.outcome = "stop"
    /\ \E k \in CallsOf(Instructions) : Instructions[k].impl = "size"
    /\ values[2] = Nil

====
